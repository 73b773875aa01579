-------------------------- MODULE FileTableProofs --------------------------
(* Reference and holder counts are exact for any number of processes,       *)
(* descriptors and descriptions, any file actions and any number of         *)
(* processes without a parent.                                              *)
(*                                                                          *)
(* The argument counts references table by table: the references to a       *)
(* description are those of one process's table, which an action rewrites,  *)
(* and those of the rest, which it leaves alone.                            *)
EXTENDS FileTable, FiniteSetTheorems, TLAPS

\* References to o in tables F; those outside p's table; those inside a table.
Refs(F, o) == {u \in Procs \X Slots : F[u[1]][u[2]] = o}
Rest(F, p, o) == {u \in Procs \X Slots : u[1] # p /\ F[u[1]][u[2]] = o}
Named(tab, o) == {s \in Slots : tab[s] = o}
Total(F, o) == Cardinality(Refs(F, o))
Count(tab, o) == Cardinality(Named(tab, o))
At(v, o) == IF v = o THEN 1 ELSE 0

Tables == [Slots -> Ofds \cup {None}]

----------------------------------------------------------------------------
(* Counting                                                                 *)

LEMMA SlotsFinite == IsFiniteSet(Slots) /\ IsFiniteSet(Procs \X Slots)
<1>1. IsFiniteSet(Fds)
  BY FS_Interval, FileTableAssumption DEF Fds
<1>2. IsFiniteSet(Slots)
  BY <1>1, FS_AddElement DEF Slots
<1> QED
  BY <1>2, FS_Product, FileTableAssumption

LEMMA TotalType ==
  ASSUME NEW F, NEW o \in Ofds
  PROVE  /\ IsFiniteSet(Refs(F, o)) /\ Total(F, o) \in Nat
         /\ Total(F, o) = 0 <=> Refs(F, o) = {}
<1>1. Refs(F, o) \in SUBSET (Procs \X Slots)
  BY DEF Refs
<1> QED
  BY <1>1, FS_Subset, SlotsFinite, FS_CardinalityType, FS_EmptySet DEF Total

LEMMA RestType ==
  ASSUME NEW F, NEW p \in Procs, NEW o \in Ofds
  PROVE  IsFiniteSet(Rest(F, p, o)) /\ Cardinality(Rest(F, p, o)) \in Nat
<1>1. Rest(F, p, o) \in SUBSET (Procs \X Slots)
  BY DEF Rest
<1> QED
  BY <1>1, FS_Subset, SlotsFinite, FS_CardinalityType

LEMMA CountType ==
  ASSUME NEW tab, NEW o \in Ofds
  PROVE  /\ IsFiniteSet(Named(tab, o)) /\ Count(tab, o) \in Nat
         /\ Count(tab, o) = 0 <=> Named(tab, o) = {}
<1>1. Named(tab, o) \in SUBSET Slots
  BY DEF Named
<1> QED
  BY <1>1, FS_Subset, SlotsFinite, FS_CardinalityType, FS_EmptySet DEF Count

(* The references to o are the ones of p's table and the ones of the rest.  *)
LEMMA Split ==
  ASSUME NEW F, NEW p \in Procs, NEW o \in Ofds
  PROVE  Total(F, o) = Cardinality(Rest(F, p, o)) + Count(F[p], o)
<1> DEFINE Own == {u \in Procs \X Slots : u[1] = p /\ F[u[1]][u[2]] = o}
           f == [s \in Named(F[p], o) |-> <<p, s>>]
<1>1. Refs(F, o) = Rest(F, p, o) \cup Own /\ Rest(F, p, o) \cap Own = {}
  BY DEF Refs, Rest
<1>2. f \in Bijection(Named(F[p], o), Own)
  <2>1. f \in [Named(F[p], o) -> Own]
    BY DEF Named
  <2>2. \A a, b \in Named(F[p], o) : f[a] = f[b] => a = b
    OBVIOUS
  <2>3. \A u \in Own : \E s \in Named(F[p], o) : f[s] = u
    <3> SUFFICES ASSUME NEW u \in Own PROVE \E s \in Named(F[p], o) : f[s] = u
      OBVIOUS
    <3>1. u = <<p, u[2]>> /\ u[2] \in Named(F[p], o)
      BY DEF Named
    <3> QED
      BY <3>1
  <2> QED
    BY <2>1, <2>2, <2>3 DEF Bijection, Injection, Surjection, IsInjective
<1>3. IsFiniteSet(Own) /\ Cardinality(Own) = Count(F[p], o)
  BY <1>2, CountType, RestType, TotalType, FS_Bijection DEF ExistsBijection, Count
<1>4. Cardinality(Rest(F, p, o) \cap Own) = 0
  BY <1>1, FS_EmptySet
<1>5. Cardinality(Refs(F, o)) = Cardinality(Rest(F, p, o)) + Cardinality(Own)
                                 - Cardinality(Rest(F, p, o) \cap Own)
  BY <1>1, <1>3, CountType, RestType, TotalType, FS_Union
<1>6. Total(F, o) = Cardinality(Refs(F, o))
  BY DEF Total
<1>7. Cardinality(Rest(F, p, o)) \in Nat /\ Count(F[p], o) \in Nat
  BY CountType, RestType, TotalType
<1> QED
  BY <1>3, <1>4, <1>5, <1>6, <1>7

(* Rewriting one table moves the total by the change in that table.         *)
LEMMA TableChange ==
  ASSUME NEW F, NEW G, NEW p \in Procs, NEW o \in Ofds, \A q \in Procs : q # p => G[q] = F[q]
  PROVE  Total(G, o) = Total(F, o) - Count(F[p], o) + Count(G[p], o)
<1>1. Rest(G, p, o) = Rest(F, p, o)
  BY DEF Rest
<1>2. Total(G, o) = Cardinality(Rest(F, p, o)) + Count(G[p], o)
  BY <1>1, Split
<1>3. Total(F, o) = Cardinality(Rest(F, p, o)) + Count(F[p], o)
  BY Split
<1>4. Cardinality(Rest(F, p, o)) \in Nat /\ Count(F[p], o) \in Nat /\ Count(G[p], o) \in Nat
  BY CountType, RestType, TotalType
<1> QED
  BY <1>2, <1>3, <1>4

(* Rewriting one slot of a table: the description it named loses a          *)
(* reference and the one it names now gains one.                            *)
LEMMA SlotChange ==
  ASSUME NEW tab \in Tables, NEW s \in Slots, NEW v \in Ofds \cup {None}, NEW o \in Ofds
  PROVE  Count([tab EXCEPT ![s] = v], o) = Count(tab, o)
              - At(tab[s], o) + At(v, o)
<1> DEFINE new == [tab EXCEPT ![s] = v]
<1>1. Named(new, o) = (Named(tab, o) \ {s}) \cup (IF v = o THEN {s} ELSE {})
  BY DEF Named, Tables
<1>2. /\ IsFiniteSet(Named(tab, o) \ {s})
      /\ Cardinality(Named(tab, o) \ {s}) = Count(tab, o) - At(tab[s], o)
  <2>1. IsFiniteSet(Named(tab, o)) /\ Count(tab, o) \in Nat
    BY CountType, RestType, TotalType
  <2>2. s \in Named(tab, o) <=> tab[s] = o
    BY DEF Named
  <2> HIDE DEF Named
  <2> QED
    BY <2>1, <2>2, FS_RemoveElement DEF Count, At
<1>3. Count(new, o) = Cardinality(Named(tab, o) \ {s}) + At(v, o)
  <2>1. CASE v = o
    <3>1. Named(new, o) = (Named(tab, o) \ {s}) \cup {s} /\ s \notin Named(tab, o) \ {s}
      BY <2>1, <1>1
    <3> HIDE DEF new
    <3> QED
      BY <2>1, <3>1, <1>2, FS_AddElement DEF Count, At
  <2>2. CASE v # o
    <3>1. Named(new, o) = Named(tab, o) \ {s}
      BY <2>2, <1>1
    <3>2. Cardinality(Named(tab, o) \ {s}) \in Nat
      BY <1>2, FS_CardinalityType
    <3> HIDE DEF new
    <3> QED
      BY <2>2, <3>1, <3>2 DEF Count, At
  <2> QED
    BY <2>1, <2>2
<1> QED
  BY <1>2, <1>3, CountType, RestType, TotalType DEF Tables

(* A table's references are its descriptors and its strace reference.       *)
LEMMA UsesAndTrace ==
  ASSUME NEW tab \in Tables, NEW o \in Ofds
  PROVE  /\ Uses(tab, o) \in Nat
         /\ Count(tab, o) = Uses(tab, o) + At(tab[Trace], o)
<1> DEFINE D == {s \in Fds : tab[s] = o}
<1>1. Trace \notin Fds
  BY FileTableAssumption DEF Trace, Fds
<1>2. D = Named(tab, o) \ {Trace}
  BY <1>1 DEF Named, Slots
<1>3. IsFiniteSet(D) /\ Cardinality(D) = Count(tab, o) - At(tab[Trace], o)
  <2>1. IsFiniteSet(Named(tab, o)) /\ Count(tab, o) \in Nat
    BY CountType, RestType, TotalType
  <2>2. Trace \in Named(tab, o) <=> tab[Trace] = o
    BY DEF Named, Slots
  <2> HIDE DEF D
  <2> QED
    BY <1>2, <2>1, <2>2, FS_RemoveElement DEF Count, At
<1>4. Count(tab, o) \in Nat /\ Cardinality(D) \in Nat /\ Uses(tab, o) = Cardinality(D)
  BY <1>3, CountType, RestType, TotalType, FS_CardinalityType DEF Uses
<1> QED
  BY <1>3, <1>4 DEF At

LEMMA EmptyTable ==
  Empty \in Tables /\ \A o \in Ofds : Count(Empty, o) = 0 /\ Uses(Empty, o) = 0
<1>1. Empty \in Tables /\ \A o \in Ofds : Named(Empty, o) = {}
  BY FileTableAssumption DEF Empty, Tables, Named, Ofds, None
<1>2. \A o \in Ofds : Count(Empty, o) = 0
  BY <1>1, CountType, RestType, TotalType
<1>3. Empty[Trace] = None /\ None \notin Ofds
  BY FileTableAssumption DEF Empty, Slots, Trace, Ofds, None
<1> QED
  BY <1>1, <1>2, <1>3, UsesAndTrace DEF At

----------------------------------------------------------------------------
(* One description                                                          *)

Desc == [kind : Kinds, refs : Nat, by : [Holders -> Nat], open : BOOLEAN, closes : Nat]

\* A description with n references, counted right; n may still be 0 while
\* the handler that made it has not taken its first reference.
Live(d, n) == d.open /\ d.refs = n /\ d.kind # "unmade" /\ d.closes = 0
Gone(d) == ~d.open /\ d.closes = IF d.kind = "unmade" THEN 0 ELSE 1
Sound(d, n) == IF n > 0 THEN Live(d, n) ELSE Gone(d)

LEMMA MadeLive ==
  ASSUME NEW k \in Kinds \ {"unmade"}
  PROVE  Made(k) \in Desc /\ Live(Made(k), 0) /\ Made(k).kind = k
  BY DEF Made, Unmade, Desc, Kinds, PipeEnds, Live

\* The fields are set one at a time.
SetRefs(d, r) == [d EXCEPT !.refs = r]
SetBy(d, b) == [d EXCEPT !.by = b]
SetOpen(d, b) == [d EXCEPT !.open = b]
SetCloses(d, r) == [d EXCEPT !.closes = r]

LEMMA SetRefsOk ==
  ASSUME NEW d \in Desc, NEW r \in Nat
  PROVE  /\ SetRefs(d, r) \in Desc /\ SetRefs(d, r).refs = r
         /\ SetRefs(d, r).kind = d.kind
         /\ SetRefs(d, r).open = d.open /\ SetRefs(d, r).closes = d.closes
  BY DEF SetRefs, Desc

LEMMA SetByOk ==
  ASSUME NEW d \in Desc, NEW b \in [Holders -> Nat]
  PROVE  /\ SetBy(d, b) \in Desc /\ SetBy(d, b).refs = d.refs
         /\ SetBy(d, b).kind = d.kind
         /\ SetBy(d, b).open = d.open /\ SetBy(d, b).closes = d.closes
  BY DEF SetBy, Desc

LEMMA SetClosedOk ==
  ASSUME NEW d \in Desc
  PROVE  /\ SetCloses(SetOpen(d, FALSE), 1) \in Desc
         /\ SetCloses(SetOpen(d, FALSE), 1).open = FALSE
         /\ SetCloses(SetOpen(d, FALSE), 1).closes = 1
         /\ SetCloses(SetOpen(d, FALSE), 1).kind = d.kind
<1> DEFINE e == SetOpen(d, FALSE)
<1>1. e \in Desc /\ e.open = FALSE /\ e.kind = d.kind
  BY DEF SetOpen, Desc
<1> HIDE DEF e
<1>2. /\ SetCloses(e, 1) \in Desc /\ SetCloses(e, 1).closes = 1
      /\ SetCloses(e, 1).kind = e.kind /\ SetCloses(e, 1).open = e.open
  BY <1>1 DEF SetCloses, Desc
<1>3. /\ SetCloses(e, 1) \in Desc /\ SetCloses(e, 1).closes = 1
      /\ SetCloses(e, 1).kind = d.kind /\ SetCloses(e, 1).open = FALSE
  BY <1>1, <1>2
<1> QED
  BY <1>3 DEF e

LEMMA MoreLive ==
  ASSUME NEW d \in Desc, NEW n \in Nat, NEW m \in Nat, NEW q \in Holders, Live(d, n)
  PROVE  /\ More(d, q, m) \in Desc
         /\ Live(More(d, q, m), n + m)
         /\ More(d, q, m).kind = d.kind
<1> DEFINE b == Held(d, q, m)
           d1 == SetRefs(d, n + m)
<1>1. b \in [Holders -> Nat]
  BY DEF Held, Desc
<1>2. More(d, q, m) = SetBy(SetRefs(d, d.refs + m), b)
  BY DEF More, SetBy, SetRefs
<1>3. d.refs = n /\ n + m \in Nat
  BY DEF Live
<1>4. More(d, q, m) = SetBy(d1, b)
  BY <1>2, <1>3
<1>5. d1 \in Desc /\ d1.refs = n + m /\ d1.kind = d.kind
      /\ d1.open = d.open /\ d1.closes = d.closes
  BY <1>3, SetRefsOk
<1> HIDE DEF b, d1
<1>6. /\ SetBy(d1, b) \in Desc /\ SetBy(d1, b).refs = d1.refs
      /\ SetBy(d1, b).kind = d1.kind
      /\ SetBy(d1, b).open = d1.open /\ SetBy(d1, b).closes = d1.closes
  BY <1>1, <1>5, SetByOk
<1> QED
  BY <1>4, <1>5, <1>6 DEF Live

LEMMA LessSound ==
  ASSUME NEW d \in Desc, NEW n \in Nat, NEW m \in Nat, NEW q \in Holders, Live(d, n), m <= n
  PROVE  /\ Settled(Less(d, q, m)) \in Desc
         /\ Sound(Settled(Less(d, q, m)), n - m)
         /\ Settled(Less(d, q, m)).kind = d.kind
<1> DEFINE b == Dropped(d, q, m)
           d1 == SetRefs(d, n - m)
           e == Less(d, q, m)
<1>1. b \in [Holders -> Nat]
  BY DEF Dropped, Desc
<1>2. e = SetBy(SetRefs(d, d.refs - m), b)
  BY DEF Less, SetBy, SetRefs
<1>3. d.refs = n /\ n - m \in Nat
  BY DEF Live
<1>4. e = SetBy(d1, b)
  BY <1>2, <1>3
<1>5. d1 \in Desc /\ d1.refs = n - m /\ d1.kind = d.kind
      /\ d1.open = d.open /\ d1.closes = d.closes
  BY <1>3, SetRefsOk
<1> HIDE DEF b, d1, e
<1>6. /\ e \in Desc /\ e.refs = n - m /\ e.kind = d.kind
      /\ e.open = d.open /\ e.closes = d.closes
  BY <1>1, <1>4, <1>5, SetByOk
<1>7. Settled(e) \in Desc /\ Sound(Settled(e), n - m) /\ Settled(e).kind = d.kind
  <2>1. CASE n - m > 0
    BY <1>6, <2>1 DEF Settled, Sound, Live
  <2>2. CASE n - m = 0
    <3>1. e.closes = 0 /\ e.kind # "unmade"
      BY <1>6 DEF Live
    <3>2. Settled(e) = SetCloses(SetOpen(e, FALSE), e.closes + 1)
      BY <1>6, <2>2 DEF Settled, SetCloses, SetOpen
    <3>3. Settled(e) = SetCloses(SetOpen(e, FALSE), 1)
      BY <3>1, <3>2
    <3>4. Settled(e) \in Desc /\ Settled(e).open = FALSE /\ Settled(e).closes = 1
          /\ Settled(e).kind = e.kind
      BY <1>6, <3>3, SetClosedOk
    <3> QED
      BY <1>6, <2>2, <3>1, <3>4 DEF Sound, Gone
  <2> QED
    BY <1>3, <2>1, <2>2
<1> QED
  BY <1>7 DEF e

----------------------------------------------------------------------------
(* The map of descriptions                                                  *)

Map == [Ofds -> Desc]

LEMMA RefStep ==
  ASSUME NEW d \in Map, NEW o \in Ofds, NEW q \in Holders, NEW n \in Nat, Live(d[o], n)
  PROVE  /\ Ref(d, o, q) \in Map
         /\ Live(Ref(d, o, q)[o], n + 1)
         /\ \A x \in Ofds : Ref(d, o, q)[x].kind = d[x].kind
         /\ \A x \in Ofds \ {o} : Ref(d, o, q)[x] = d[x]
  BY MoreLive DEF Ref, Map

\* Releasing an id the map has forgotten changes nothing.
LEMMA UnrefStep ==
  ASSUME NEW d \in Map, NEW o \in Ofds \cup {None}, NEW q \in Holders, NEW n \in Nat,
         o \in Ofds /\ d[o].open => Live(d[o], n) /\ n > 0
  PROVE  /\ Unref(d, o, q) \in Map
         /\ o \in Ofds /\ d[o].open => Sound(Unref(d, o, q)[o], n - 1)
         /\ \A x \in Ofds : Unref(d, o, q)[x].kind = d[x].kind
         /\ \A x \in Ofds \ {o} : Unref(d, o, q)[x] = d[x]
         /\ \A x \in Ofds : ~d[x].open => Unref(d, o, q)[x] = d[x]
<1>0. None \notin Ofds
  BY FileTableAssumption DEF None, Ofds
<1>1. CASE o = None \/ ~d[o].open
  <2>1. Unref(d, o, q) = d
    BY <1>1 DEF Unref
  <2> QED
    BY <1>0, <1>1, <2>1
<1>2. CASE o \in Ofds /\ d[o].open
  <2>1. d[o] \in Desc /\ Live(d[o], n) /\ 1 <= n
    BY <1>2 DEF Map
  <2>2. Unref(d, o, q) = [d EXCEPT ![o] = Settled(Less(d[o], q, 1))]
    BY <1>0, <1>2, <2>1 DEF Unref, Live, Map
  <2>3. Settled(Less(d[o], q, 1)) \in Desc /\ Sound(Settled(Less(d[o], q, 1)), n - 1)
        /\ Settled(Less(d[o], q, 1)).kind = d[o].kind
    BY <2>1, LessSound
  <2> QED
    BY <1>2, <2>2, <2>3 DEF Map
<1> QED
  BY <1>0, <1>1, <1>2

LEMMA RefAllStep ==
  ASSUME NEW d \in Map, NEW tab \in Tables, NEW q \in Holders, NEW T \in [Ofds -> Nat],
         \A o \in Ofds : Sound(d[o], T[o]),
         \A o \in Ofds : Uses(tab, o) > 0 => T[o] > 0
  PROVE  /\ RefAll(d, tab, q) \in Map
         /\ \A o \in Ofds : Sound(RefAll(d, tab, q)[o], T[o] + Uses(tab, o))
         /\ \A o \in Ofds : RefAll(d, tab, q)[o].kind = d[o].kind
         /\ \A o \in Ofds : ~d[o].open => RefAll(d, tab, q)[o] = d[o]
<1> SUFFICES ASSUME NEW o \in Ofds
             PROVE  LET e == RefAll(d, tab, q)[o]
                    IN  /\ e \in Desc /\ Sound(e, T[o] + Uses(tab, o)) /\ e.kind = d[o].kind
                        /\ ~d[o].open => e = d[o]
  BY DEF RefAll, Map
<1> DEFINE n == Uses(tab, o)
<1>1. n \in Nat /\ d[o] \in Desc /\ T[o] \in Nat
  BY UsesAndTrace DEF Map
<1>2. CASE n = 0
  BY <1>1, <1>2 DEF RefAll
<1>3. CASE n > 0
  <2>1. T[o] > 0 /\ Live(d[o], T[o])
    BY <1>3 DEF Sound
  <2>2. RefAll(d, tab, q)[o] = More(d[o], q, n)
    BY <1>1, <1>3, <2>1 DEF RefAll, Live
  <2>3. /\ More(d[o], q, n) \in Desc /\ Live(More(d[o], q, n), T[o] + n)
        /\ More(d[o], q, n).kind = d[o].kind
    BY <1>1, <2>1, MoreLive
  <2>4. Sound(More(d[o], q, n), T[o] + n)
    BY <1>1, <1>3, <2>3 DEF Sound
  <2> QED
    BY <2>1, <2>2, <2>3, <2>4 DEF Live
<1> QED
  BY <1>1, <1>2, <1>3

LEMMA UnrefAllStep ==
  ASSUME NEW d \in Map, NEW tab \in Tables, NEW q \in Holders, NEW T \in [Ofds -> Nat],
         \A o \in Ofds : Sound(d[o], T[o]),
         \A o \in Ofds : d[o].open => Uses(tab, o) <= T[o]
  PROVE  /\ UnrefAll(d, tab, q) \in Map
         /\ \A o \in Ofds : Uses(tab, o) <= T[o]
                            => Sound(UnrefAll(d, tab, q)[o], T[o] - Uses(tab, o))
         /\ \A o \in Ofds : UnrefAll(d, tab, q)[o].kind = d[o].kind
         /\ \A o \in Ofds : ~d[o].open => UnrefAll(d, tab, q)[o] = d[o]
<1> SUFFICES ASSUME NEW o \in Ofds
             PROVE  LET e == UnrefAll(d, tab, q)[o]
                    IN  /\ e \in Desc /\ e.kind = d[o].kind
                        /\ Uses(tab, o) <= T[o] => Sound(e, T[o] - Uses(tab, o))
                        /\ ~d[o].open => e = d[o]
  BY DEF UnrefAll, Map
<1> DEFINE n == Uses(tab, o)
<1>1. n \in Nat /\ d[o] \in Desc /\ T[o] \in Nat
  BY UsesAndTrace DEF Map
<1>2. CASE n = 0 \/ ~d[o].open
  <2>1. UnrefAll(d, tab, q)[o] = d[o]
    BY <1>2 DEF UnrefAll
  <2>2. Uses(tab, o) <= T[o] => Sound(d[o], T[o] - Uses(tab, o))
    BY <1>1, <1>2 DEF Sound, Live
  <2>3. d[o].open => Uses(tab, o) <= T[o] /\ n = 0
    BY <1>2
  <2> QED
    BY <1>1, <2>1, <2>2
<1>3. CASE n > 0 /\ d[o].open
  <2>1. n <= T[o] /\ Live(d[o], T[o])
    BY <1>1, <1>3 DEF Sound
  <2>2. UnrefAll(d, tab, q)[o] = Settled(Less(d[o], q, n))
    BY <1>1, <1>3, <2>1 DEF UnrefAll, Live
  <2>3. /\ Settled(Less(d[o], q, n)) \in Desc /\ Sound(Settled(Less(d[o], q, n)), T[o] - n)
        /\ Settled(Less(d[o], q, n)).kind = d[o].kind
    BY <1>1, <2>1, LessSound
  <2> QED
    BY <1>3, <2>2, <2>3
<1> QED
  BY <1>1, <1>2, <1>3

(* A slot that named b names a instead: one reference taken, one dropped.   *)
LEMMA Replace ==
  ASSUME NEW d \in Map, NEW T \in [Ofds -> Nat], NEW q \in Holders,
         NEW a \in Ofds, NEW b \in Ofds \cup {None},
         ofd' = Unref(Ref(d, a, q), b, q),
         Live(d[a], T[a]),
         \A o \in Ofds \ {a} : Sound(d[o], T[o]),
         b \in Ofds /\ d[b].open => T[b] > 0 \/ b = a
  PROVE  /\ ofd' \in Map
         /\ \A o \in Ofds : d[o].open => Sound(ofd'[o], T[o] - At(b, o) + At(a, o))
         /\ \A o \in Ofds : ofd'[o].kind = d[o].kind
         /\ \A o \in Ofds : ~d[o].open => ofd'[o] = d[o]
<1> DEFINE d1 == Ref(d, a, q)
           n == IF b = a THEN T[a] + 1 ELSE IF b \in Ofds THEN T[b] ELSE 0
<1>1. /\ d1 \in Map /\ Live(d1[a], T[a] + 1)
      /\ \A x \in Ofds : d1[x].kind = d[x].kind
      /\ \A x \in Ofds \ {a} : d1[x] = d[x]
  BY RefStep
<1>0. ofd' = Unref(d1, b, q)
  OBVIOUS
<1> HIDE DEF d1
<1>2. n \in Nat /\ (b \in Ofds /\ d1[b].open => Live(d1[b], n) /\ n > 0)
  <2>1. CASE b = a
    BY <1>1, <2>1
  <2>2. CASE b \in Ofds /\ b # a
    BY <1>1, <2>2 DEF Sound
  <2>3. CASE b \notin Ofds
    BY <2>3
  <2> QED
    BY <2>1, <2>2, <2>3
<1> HIDE DEF n
<1>3. /\ ofd' \in Map
      /\ b \in Ofds /\ d1[b].open => Sound(ofd'[b], n - 1)
      /\ \A x \in Ofds : ofd'[x].kind = d1[x].kind
      /\ \A x \in Ofds \ {b} : ofd'[x] = d1[x]
      /\ \A x \in Ofds : ~d1[x].open => ofd'[x] = d1[x]
  BY <1>0, <1>1, <1>2, UnrefStep
<1>4. ASSUME NEW o \in Ofds, d[o].open
      PROVE  Sound(ofd'[o], T[o] - At(b, o) + At(a, o))
  <2>0. d1[o].open
    BY <1>1, <1>4 DEF Live
  <2>1. CASE o = a /\ o = b
    BY <1>3, <2>0, <2>1 DEF n, At
  <2>2. CASE o = a /\ o # b
    BY <1>1, <1>3, <2>2 DEF Sound, At
  <2>3. CASE o # a /\ o = b
    BY <1>3, <2>0, <2>3 DEF n, At
  <2>4. CASE o # a /\ o # b
    BY <1>1, <1>3, <2>4 DEF At
  <2> QED
    BY <2>1, <2>2, <2>3, <2>4
<1>5. ASSUME NEW o \in Ofds, ~d[o].open PROVE ofd'[o] = d[o]
  <2>1. o # a
    BY <1>5 DEF Live
  <2> QED
    BY <1>1, <1>3, <1>5, <2>1
<1> QED
  BY <1>1, <1>3, <1>4, <1>5

----------------------------------------------------------------------------
(* The inductive invariant                                                  *)
(*                                                                          *)
(* A released standard description may be named again: the kernel keeps its *)
(* id and hands it to the next process without a parent.  So the count is   *)
(* right for what is open, and what names the rest is accounted for apart.  *)

\* Every open description is counted right against all the tables.
Counted == \A o \in Ofds : Sound(ofd[o], IF ofd[o].open THEN Total(fds, o) ELSE 0)

\* Only a standard slot of a process without a parent names what is closed.
Stale == \A p \in Procs, s \in Slots :
    fds[p][s] # None /\ ~ofd[fds[p][s]].open => StdSlot(p, s)

\* Ids from next up are unmade.
MadeBelowNext == \A o \in Ofds : ofd[o].kind = "unmade" <=> o >= next

\* A process that was never started holds nothing.
Unstarted == \A p \in Procs : state[p] = "none" /\ p # making => fds[p] = Empty

\* The standard descriptions are made in a row at the first spawn without a
\* parent, and not before.
StdOnce == services = {} => \A s \in StdFds : std[s] = None
StdMade == services # {} =>
    \A s \in StdFds : /\ std[s] \in Ofds /\ std[s] = std[0] + s
                      /\ ofd[std[s]].kind = "std"

IInv == TypeOK /\ Counted /\ Stale /\ MadeBelowNext /\ Unstarted /\ StdOnce /\ StdMade

\* The tables' types, in the words of the lemmas above.
LEMMA Typed ==
  ASSUME TypeOK
  PROVE  fds \in [Procs -> Tables] /\ ofd \in Map
  BY DEF TypeOK, Tables, Map, Desc

\* The references that count, as one function for the lemmas that take one.
Due == [o \in Ofds |-> IF ofd[o].open THEN Total(fds, o) ELSE 0]

LEMMA DueType ==
  ASSUME IInv
  PROVE  /\ Due \in [Ofds -> Nat]
         /\ \A o \in Ofds : Sound(ofd[o], Due[o])
         /\ \A o \in Ofds : Due[o] = IF ofd[o].open THEN Total(fds, o) ELSE 0
         /\ \A o \in Ofds : ~ofd[o].open => Gone(ofd[o])
<1>1. Due \in [Ofds -> Nat]
  BY TotalType DEF Due
<1>2. \A o \in Ofds : Due[o] = IF ofd[o].open THEN Total(fds, o) ELSE 0
  BY DEF Due
<1>3. \A o \in Ofds : Sound(ofd[o], Due[o])
  BY <1>2 DEF IInv, Counted
<1>4. \A o \in Ofds : ~ofd[o].open => Gone(ofd[o])
  BY <1>2, <1>3 DEF Sound
<1> QED
  BY <1>1, <1>2, <1>3, <1>4

(* What a slot names is made, and counted while it is open.                 *)
LEMMA NamedLive ==
  ASSUME IInv, NEW p \in Procs, NEW s \in Slots, fds[p][s] # None
  PROVE  LET o == fds[p][s]
         IN  /\ o \in Ofds
             /\ Total(fds, o) \in Nat /\ Total(fds, o) > 0
             /\ ofd[o].open => Live(ofd[o], Total(fds, o))
<1> DEFINE o == fds[p][s]
<1>1. o \in Ofds
  BY DEF IInv, TypeOK
<1>2. <<p, s>> \in Refs(fds, o)
  BY DEF Refs
<1>3. Refs(fds, o) # {} /\ Total(fds, o) \in Nat /\ (Total(fds, o) = 0 => Refs(fds, o) = {})
  BY <1>1, <1>2, TotalType
<1>4. Total(fds, o) \in Nat /\ Total(fds, o) > 0
  BY <1>3
<1>5. ofd[o].open => Live(ofd[o], Total(fds, o))
  BY <1>1, <1>4 DEF IInv, Counted, Sound
<1> QED
  BY <1>1, <1>4, <1>5

\* Nothing names an id that is not made yet.
LEMMA NewUnnamed ==
  ASSUME IInv, NEW o \in Ofds, o >= next
  PROVE  Total(fds, o) = 0 /\ ~ofd[o].open
<1>1. ofd[o].kind = "unmade"
  BY DEF IInv, MadeBelowNext
<1>2. ~ofd[o].open
  <2>1. Sound(ofd[o], Due[o])
    BY DueType
  <2>2. ofd[o].open => FALSE
    BY <1>1, <2>1 DEF Sound, Live, Gone
  <2> QED
    BY <2>2, DueType DEF Sound, Live, Gone
<1>3. ASSUME NEW q \in Procs, NEW s \in Slots, fds[q][s] = o PROVE FALSE
  <2>1. fds[q][s] # None
    BY <1>3, FileTableAssumption DEF None, Ofds
  <2>2. q \in services /\ s \in StdFds /\ fds[q][s] = std[s]
    BY <1>2, <1>3, <2>1 DEF IInv, Stale, StdSlot
  <2>3. ofd[std[s]].kind = "std"
    BY <2>2 DEF IInv, StdMade
  <2> QED
    BY <1>1, <1>3, <2>2, <2>3
<1>4. Refs(fds, o) = {}
  BY <1>3 DEF Refs
<1> QED
  BY <1>2, <1>4, TotalType

LEMMA UsesBound ==
  ASSUME IInv, NEW p \in Procs, NEW o \in Ofds
  PROVE  /\ Count(fds[p], o) \in Nat /\ Total(fds, o) \in Nat
         /\ Count(fds[p], o) <= Total(fds, o)
<1>1. Total(fds, o) = Cardinality(Rest(fds, p, o)) + Count(fds[p], o)
  BY Split
<1> QED
  BY <1>1, CountType, RestType, TotalType

\* A step that gives one slot of one process another value, and one that
\* rewrites the whole table of one process.
SlotSet(p, s, v) == fds' = [fds EXCEPT ![p][s] = v]
TableSet(p, tab) == fds' = [fds EXCEPT ![p] = tab]

LEMMA SlotSetType ==
  ASSUME IInv, NEW p \in Procs, NEW s \in Slots, NEW v \in Ofds \cup {None},
         SlotSet(p, s, v)
  PROVE  fds' \in [Procs -> Tables]
<1>1. fds \in [Procs -> Tables] /\ [fds[p] EXCEPT ![s] = v] \in Tables
  BY Typed DEF IInv, Tables
<1> QED
  BY <1>1 DEF SlotSet

LEMMA OneSlot ==
  ASSUME IInv, NEW p \in Procs, NEW s \in Slots, NEW v \in Ofds \cup {None},
         SlotSet(p, s, v)
  PROVE  \A o \in Ofds : Total(fds', o) = Total(fds, o) - At(fds[p][s], o) + At(v, o)
<1> DEFINE old == fds[p]
           tab == [old EXCEPT ![s] = v]
<1>1. fds \in [Procs -> Tables] /\ old \in Tables /\ tab \in Tables
  BY Typed DEF IInv, Tables
<1>2. fds' \in [Procs -> Tables] /\ fds'[p] = tab /\ \A q \in Procs : q # p => fds'[q] = fds[q]
  BY <1>1 DEF SlotSet
<1>4. \A q \in Procs : q # p => fds'[q] = fds[q]
  BY <1>2
<1>3. ASSUME NEW o \in Ofds
      PROVE  Total(fds', o) = Total(fds, o) - At(old[s], o) + At(v, o)
  <2>1. Total(fds', o) = Total(fds, o) - Count(fds[p], o) + Count(fds'[p], o)
    BY ONLY <1>4, TableChange, ZenonT(60)
  <2> HIDE DEF old
  <2>2. Count(tab, o) = Count(old, o) - At(old[s], o) + At(v, o)
    BY <1>1, SlotChange
  <2>4. fds'[p] = tab
    BY <1>2
  <2> HIDE DEF tab
  <2>3. Total(fds, o) \in Nat /\ Count(old, o) \in Nat /\ Count(tab, o) \in Nat
    BY CountType, TotalType
  <2> QED
    BY <2>1, <2>2, <2>3, <2>4 DEF At, old
<1> QED
  BY <1>2, <1>3

----------------------------------------------------------------------------
(* What a step must show                                                    *)

\* A description is counted right after the step, or it was closed and is.
Kept(o) ==
    Sound(ofd'[o], Total(fds', o)) \/ (~ofd[o].open /\ Gone(ofd'[o]))

\* A slot that is given something new is given what is counted right, or is a
\* standard slot of a process without a parent.
Handed(p, s) ==
    \/ fds'[p][s] \in {None, fds[p][s]}
    \/ Sound(ofd'[fds'[p][s]], Total(fds', fds'[p][s]))
    \/ p \in services' /\ s \in StdFds /\ fds'[p][s] = std'[s]

Faithful ==
    /\ \A o \in Ofds : Kept(o)
    /\ \A p \in Procs, s \in Slots : Handed(p, s)
    /\ \A o \in Ofds : ofd[o].kind # "unmade" => ofd'[o].kind = ofd[o].kind

LEMMA SlotHanded ==
  ASSUME IInv, NEW p \in Procs, NEW s \in Slots, NEW v \in Ofds \cup {None},
         SlotSet(p, s, v), v \in Ofds => Sound(ofd'[v], Total(fds', v))
  PROVE  \A q \in Procs, t \in Slots : Handed(q, t)
<1> SUFFICES ASSUME NEW q \in Procs, NEW t \in Slots PROVE Handed(q, t)
  OBVIOUS
<1>1. fds \in [Procs -> Tables] /\ fds[p] \in [Slots -> Ofds \cup {None}]
  BY Typed DEF IInv, Tables
<1>2. fds'[q][t] = IF q = p /\ t = s THEN v ELSE fds[q][t]
  BY <1>1 DEF SlotSet
<1>3. CASE q = p /\ t = s
  BY <1>2, <1>3 DEF Handed
<1>4. CASE ~(q = p /\ t = s)
  BY <1>2, <1>4 DEF Handed
<1> QED
  BY <1>3, <1>4

LEMMA TableHanded ==
  ASSUME IInv, NEW p \in Procs, NEW tab \in Tables, TableSet(p, tab),
         \A t \in Slots : \/ tab[t] \in {None, fds[p][t]}
                          \/ Sound(ofd'[tab[t]], Total(fds', tab[t]))
  PROVE  \A q \in Procs, t \in Slots : Handed(q, t)
<1> SUFFICES ASSUME NEW q \in Procs, NEW t \in Slots PROVE Handed(q, t)
  OBVIOUS
<1>1. fds \in [Procs -> Tables]
  BY Typed DEF IInv
<1>2. fds'[q] = IF q = p THEN tab ELSE fds[q]
  BY <1>1 DEF TableSet
<1>3. CASE q = p
  BY <1>2, <1>3 DEF Handed
<1>4. CASE q # p
  BY <1>2, <1>4 DEF Handed
<1> QED
  BY <1>3, <1>4

\* What the new tables name and is closed was closed and is named as before.
LEMMA StaleStep ==
  ASSUME IInv, Faithful, fds' \in [Procs -> Tables], services \subseteq services',
         \A s \in StdFds : std[s] # None => std'[s] = std[s]
  PROVE  Stale'
<1> SUFFICES ASSUME NEW p \in Procs, NEW s \in Slots,
                    fds'[p][s] # None, ~ofd'[fds'[p][s]].open
             PROVE  p \in services' /\ s \in StdFds /\ fds'[p][s] = std'[s]
  BY DEF Stale, StdSlot
<1> DEFINE o == fds'[p][s]
<1>1. o \in Ofds
  BY DEF Tables
<1>2. <<p, s>> \in Refs(fds', o)
  BY DEF Refs
<1>3. Total(fds', o) \in Nat /\ Total(fds', o) # 0
  BY <1>1, <1>2, TotalType
<1>4. ~Sound(ofd'[o], Total(fds', o))
  BY <1>3 DEF Sound, Live
<1>5. ~ofd[o].open
  BY <1>1, <1>4 DEF Faithful, Kept
<1>6. \/ o = fds[p][s]
      \/ p \in services' /\ s \in StdFds /\ o = std'[s]
  BY <1>4 DEF Faithful, Handed
<1>7. CASE o = fds[p][s]
  <2>1. p \in services /\ s \in StdFds /\ fds[p][s] = std[s] /\ fds[p][s] # None
    BY <1>5, <1>7 DEF IInv, Stale, StdSlot
  <2>2. std'[s] = std[s] /\ p \in services'
    BY <2>1
  <2> QED
    BY <1>7, <2>1, <2>2
<1> QED
  BY <1>6, <1>7

LEMMA StepInv ==
  ASSUME IInv, Faithful, fds' \in [Procs -> Tables], ofd' \in Map,
         follow' \subseteq Procs, state' \in [Procs -> {"none", "live", "dead", "lost"}],
         next' \in 1..(MaxOfd + 1), std' \in [StdFds -> Ofds \cup {None}],
         services' \subseteq Procs, making' \in Procs \cup {None}, acts' \in 0..MaxActions,
         \A o \in Ofds : ofd'[o].kind = "unmade" <=> o >= next',
         \A p \in Procs : state'[p] = "none" /\ p # making' => fds'[p] = Empty,
         services \subseteq services', \A s \in StdFds : std[s] # None => std'[s] = std[s],
         StdOnce', StdMade'
  PROVE  IInv'
<1>1. TypeOK'
  BY DEF TypeOK, Tables, Map, Desc
<1>2. Counted'
  <2> SUFFICES ASSUME NEW o \in Ofds
               PROVE  Sound(ofd'[o], IF ofd'[o].open THEN Total(fds', o) ELSE 0)
    BY DEF Counted, Total, Refs
  <2>1. Total(fds', o) \in Nat
    BY TotalType
  <2>2. CASE Sound(ofd'[o], Total(fds', o))
    BY <2>1, <2>2 DEF Sound, Live, Gone
  <2>3. CASE ~ofd[o].open /\ Gone(ofd'[o])
    BY <2>3 DEF Sound, Gone
  <2> QED
    BY <2>2, <2>3 DEF Faithful, Kept
<1>3. Stale'
  BY StaleStep
<1>4. MadeBelowNext' /\ Unstarted'
  BY DEF MadeBelowNext, Unstarted
<1> QED
  BY <1>1, <1>2, <1>3, <1>4 DEF IInv

\* What is left to show of a step that starts no process without a parent.
LEMMA CallStep ==
  ASSUME IInv, Faithful, UNCHANGED <<std, services>>,
         fds' \in [Procs -> Tables], ofd' \in Map,
         follow' \subseteq Procs, state' \in [Procs -> {"none", "live", "dead", "lost"}],
         next' \in 1..(MaxOfd + 1), making' \in Procs \cup {None}, acts' \in 0..MaxActions,
         \A o \in Ofds : ofd'[o].kind = "unmade" <=> o >= next',
         \A q \in Procs : state'[q] = "none" /\ q # making' => fds'[q] = Empty
  PROVE  IInv'
<1>1. StdOnce' /\ StdMade'
  <2>1. StdOnce'
    BY DEF IInv, StdOnce
  <2>2. ASSUME services # {}, NEW s \in StdFds PROVE ofd'[std[s]].kind = "std"
    BY <2>2 DEF IInv, StdMade, Faithful
  <2> QED
    BY <2>1, <2>2 DEF IInv, StdMade
<1>2. std' \in [StdFds -> Ofds \cup {None}] /\ services' \subseteq Procs
  BY DEF IInv, TypeOK
<1> QED
  BY <1>1, <1>2, StepInv

\* And of one that makes no description either.
LEMMA QuietStep ==
  ASSUME IInv, Faithful, UNCHANGED <<next, std, services>>,
         fds' \in [Procs -> Tables], ofd' \in Map,
         \A o \in Ofds : ofd'[o].kind = ofd[o].kind,
         follow' \subseteq Procs, state' \in [Procs -> {"none", "live", "dead", "lost"}],
         making' \in Procs \cup {None}, acts' \in 0..MaxActions,
         \A q \in Procs : state'[q] = "none" /\ q # making' => fds'[q] = Empty
  PROVE  IInv'
<1>1. next' \in 1..(MaxOfd + 1) /\ \A o \in Ofds : ofd'[o].kind = "unmade" <=> o >= next'
  BY DEF IInv, TypeOK, MadeBelowNext
<1> QED
  BY <1>1, CallStep

----------------------------------------------------------------------------
(* Steps that rewrite one slot                                              *)

\* A new description takes the slot of b (None: a free slot).
LEMMA OpenSlot ==
  ASSUME IInv, NEW p \in Procs, NEW s \in Fds, next \in Ofds,
         ofd' = Unref(Ref([ofd EXCEPT ![next] = Made("file")], next, p), fds[p][s], p),
         fds' = [fds EXCEPT ![p][s] = next]
  PROVE  /\ fds' \in [Procs -> Tables] /\ ofd' \in Map /\ Faithful
         /\ \A o \in Ofds : ofd'[o].kind = "unmade" <=> o >= next + 1
<1> DEFINE d == [ofd EXCEPT ![next] = Made("file")]
           b == fds[p][s]
<1>1. ofd \in Map /\ fds \in [Procs -> Tables] /\ s \in Slots /\ p \in Holders
  BY Typed DEF IInv, Slots, Holders
<1>2. Made("file") \in Desc /\ Live(Made("file"), 0) /\ Made("file").kind = "file"
  BY MadeLive DEF Kinds, PipeEnds
<1>3. d \in Map /\ d[next] = Made("file") /\ \A o \in Ofds \ {next} : d[o] = ofd[o]
  BY <1>1, <1>2 DEF Map
<1>4. /\ Due \in [Ofds -> Nat] /\ \A o \in Ofds : Sound(ofd[o], Due[o])
      /\ \A o \in Ofds : Due[o] = IF ofd[o].open THEN Total(fds, o) ELSE 0
      /\ \A o \in Ofds : ~ofd[o].open => Gone(ofd[o])
  BY DueType
<1>5. Total(fds, next) = 0 /\ ~ofd[next].open /\ Due[next] = 0
  <2>1. next >= next
    BY DEF Ofds
  <2>2. Total(fds, next) = 0 /\ ~ofd[next].open
    BY <2>1, NewUnnamed
  <2> QED
    BY <1>4, <2>2
<1>6. b \in Ofds \cup {None} /\ (b \in Ofds /\ d[b].open => Due[b] > 0 \/ b = next)
  <2>1. b \in Ofds \cup {None}
    BY <1>1 DEF Tables
  <2>2. ASSUME b \in Ofds, d[b].open, b # next PROVE Due[b] > 0
    <3>1. ofd[b].open
      BY <1>3, <2>2
    <3>2. b # None
      BY <2>2, FileTableAssumption DEF None, Ofds
    <3>3. Total(fds, b) > 0
      BY <1>1, <3>2, NamedLive
    <3> QED
      BY <1>4, <2>2, <3>1, <3>3
  <2> QED
    BY <2>1, <2>2
<1>7. Live(d[next], Due[next]) /\ \A o \in Ofds \ {next} : Sound(d[o], Due[o])
  BY <1>2, <1>3, <1>4, <1>5
<1>8. ofd' = Unref(Ref(d, next, p), b, p)
  OBVIOUS
<1> HIDE DEF d, b
<1>9. /\ ofd' \in Map
      /\ \A o \in Ofds : d[o].open => Sound(ofd'[o], Due[o] - At(b, o) + At(next, o))
      /\ \A o \in Ofds : ofd'[o].kind = d[o].kind
      /\ \A o \in Ofds : ~d[o].open => ofd'[o] = d[o]
  BY <1>1, <1>3, <1>4, <1>6, <1>7, <1>8, Replace
<1>12. s \in Slots
  BY DEF Slots
<1>13. SlotSet(p, s, next)
  BY DEF SlotSet
<1>14. fds' \in [Procs -> Tables]
  BY <1>12, <1>13, SlotSetType
<1>10. \A o \in Ofds : Total(fds', o) = Total(fds, o) - At(b, o) + At(next, o)
  BY <1>12, <1>13, OneSlot DEF b
<1>11. \A o \in Ofds : ofd'[o].kind = "unmade" <=> o >= next + 1
  <2>1. \A o \in Ofds : ofd'[o].kind = IF o = next THEN "file" ELSE ofd[o].kind
    BY <1>2, <1>3, <1>9
  <2>2. next \in Nat /\ \A o \in Ofds : o \in Nat
    BY FileTableAssumption DEF Ofds
  <2>3. \A o \in Ofds : ofd[o].kind = "unmade" <=> o >= next
    BY DEF IInv, MadeBelowNext
  <2> SUFFICES ASSUME NEW o \in Ofds PROVE ofd'[o].kind = "unmade" <=> o >= next + 1
    OBVIOUS
  <2>4. CASE o = next
    <3>1. ofd'[o].kind = "file"
      BY <2>1, <2>4
    <3>2. ~(o >= next + 1)
      BY <2>2, <2>4
    <3> QED
      BY <3>1, <3>2
  <2>5. CASE o # next
    <3>1. ofd'[o].kind = ofd[o].kind
      BY <2>1, <2>5
    <3>2. o >= next <=> o >= next + 1
      BY <2>2, <2>5
    <3> QED
      BY <2>3, <3>1, <3>2
  <2> QED
    BY <2>4, <2>5
<1>15. ASSUME NEW o \in Ofds, d[o].open PROVE Sound(ofd'[o], Total(fds', o))
  <2>1. Due[o] = Total(fds, o)
    <3>1. CASE o = next
      BY <1>5, <3>1
    <3>2. CASE o # next
      BY <1>3, <1>4, <1>15, <3>2
    <3> QED
      BY <3>1, <3>2
  <2> QED
    BY <1>9, <1>10, <1>15, <2>1
<1>16. ASSUME NEW o \in Ofds PROVE Kept(o)
  <2>1. CASE d[o].open
    BY <1>15, <2>1 DEF Kept
  <2>2. CASE ~d[o].open
    <3>1. o # next
      BY <1>2, <1>3, <2>2 DEF Live
    <3>2. ofd'[o] = ofd[o] /\ ~ofd[o].open
      BY <1>3, <1>9, <2>2, <3>1
    <3> QED
      BY <1>4, <3>2 DEF Kept
  <2> QED
    BY <2>1, <2>2
<1>17. Sound(ofd'[next], Total(fds', next))
  BY <1>2, <1>3, <1>15 DEF Live
<1>18. \A q \in Procs, t \in Slots : Handed(q, t)
  BY <1>12, <1>13, <1>17, SlotHanded
<1>19. ASSUME NEW o \in Ofds, ofd[o].kind # "unmade" PROVE ofd'[o].kind = ofd[o].kind
  <2>1. o # next
    BY <1>19 DEF IInv, MadeBelowNext, Ofds
  <2> QED
    BY <1>3, <1>9, <2>1
<1>20. Faithful
  BY <1>16, <1>18, <1>19 DEF Faithful
<1> QED
  BY <1>9, <1>11, <1>14, <1>20

\* A reference to an open description takes the slot of b (None: a free slot).
LEMMA DupSlot ==
  ASSUME IInv, NEW p \in Procs, NEW s \in Fds, NEW a \in Ofds, Total(fds, a) > 0,
         ofd[a].open,
         ofd' = Unref(Ref(ofd, a, p), fds[p][s], p),
         SlotSet(p, s, a)
  PROVE  /\ ofd' \in Map /\ Faithful
         /\ \A o \in Ofds : ofd'[o].kind = ofd[o].kind
<1> DEFINE b == fds[p][s]
<1>1. ofd \in Map /\ s \in Slots /\ p \in Holders /\ b \in Ofds \cup {None}
  BY Typed, ZenonT(60) DEF IInv, Slots, Holders, TypeOK
<1>2. /\ Due \in [Ofds -> Nat] /\ \A o \in Ofds : Sound(ofd[o], Due[o])
      /\ \A o \in Ofds : Due[o] = IF ofd[o].open THEN Total(fds, o) ELSE 0
      /\ \A o \in Ofds : ~ofd[o].open => Gone(ofd[o])
  BY DueType
<1>3. b \in Ofds /\ ofd[b].open => Due[b] > 0
  <2> SUFFICES ASSUME b \in Ofds, ofd[b].open PROVE Due[b] > 0
    OBVIOUS
  <2>1. b # None
    BY FileTableAssumption DEF None, Ofds
  <2>2. Total(fds, b) > 0
    BY <1>1, <2>1, NamedLive
  <2> QED
    BY <1>2, <2>2
<1>4. Live(ofd[a], Due[a])
  BY <1>2 DEF Sound
<1>5. ofd' = Unref(Ref(ofd, a, p), b, p)
  OBVIOUS
<1> HIDE DEF b
<1>6. /\ ofd' \in Map
      /\ \A o \in Ofds : ofd[o].open => Sound(ofd'[o], Due[o] - At(b, o) + At(a, o))
      /\ \A o \in Ofds : ofd'[o].kind = ofd[o].kind
      /\ \A o \in Ofds : ~ofd[o].open => ofd'[o] = ofd[o]
  BY <1>1, <1>2, <1>3, <1>4, <1>5, Replace
<1>7. s \in Slots /\ a \in Ofds \cup {None}
  BY <1>1
<1>8. \A o \in Ofds : Total(fds', o) = Total(fds, o) - At(b, o) + At(a, o)
  BY <1>7, OneSlot DEF b
<1>9. \A o \in Ofds : ofd[o].open => Sound(ofd'[o], Total(fds', o))
  BY <1>2, <1>6, <1>8
<1>10. \A o \in Ofds : Kept(o)
  BY <1>2, <1>6, <1>9 DEF Kept
<1>11. \A q \in Procs, t \in Slots : Handed(q, t)
  BY <1>7, <1>9, SlotHanded
<1>12. Faithful
  BY <1>6, <1>10, <1>11 DEF Faithful
<1> QED
  BY <1>6, <1>12

\* A slot is emptied.
LEMMA CloseSlot ==
  ASSUME IInv, NEW p \in Procs, NEW s \in Fds, fds[p][s] # None,
         ofd' = Unref(ofd, fds[p][s], p),
         SlotSet(p, s, None)
  PROVE  /\ ofd' \in Map /\ Faithful
         /\ \A o \in Ofds : ofd'[o].kind = ofd[o].kind
<1> DEFINE b == fds[p][s]
<1>1. ofd \in Map /\ s \in Slots /\ p \in Holders
  BY Typed DEF IInv, Slots, Holders
<1>2. b \in Ofds /\ Total(fds, b) \in Nat /\ Total(fds, b) > 0
      /\ (ofd[b].open => Live(ofd[b], Total(fds, b)))
  BY <1>1, NamedLive
<1>3. None \notin Ofds
  BY FileTableAssumption DEF None, Ofds
<1>4. ofd' = Unref(ofd, b, p)
  OBVIOUS
<1>5. \A o \in Ofds : Total(fds', o) = Total(fds, o) - At(b, o) + At(None, o)
  BY <1>1, OneSlot
<1> HIDE DEF b
<1>6. /\ ofd' \in Map
      /\ ofd[b].open => Sound(ofd'[b], Total(fds, b) - 1)
      /\ \A x \in Ofds : ofd'[x].kind = ofd[x].kind
      /\ \A x \in Ofds \ {b} : ofd'[x] = ofd[x]
      /\ \A x \in Ofds : ~ofd[x].open => ofd'[x] = ofd[x]
  BY <1>1, <1>2, <1>4, UnrefStep
<1>7. ASSUME NEW o \in Ofds PROVE Kept(o)
  <2>1. CASE ~ofd[o].open
    BY <1>6, <2>1, DueType DEF Kept
  <2>2. CASE ofd[o].open /\ o = b
    <3>1. At(b, o) = 1 /\ At(None, o) = 0
      BY <1>3, <2>2 DEF At
    <3>2. Total(fds', o) = Total(fds, b) - 1
      BY <1>2, <1>5, <2>2, <3>1
    <3> QED
      BY <1>6, <2>2, <3>2 DEF Kept
  <2>3. CASE ofd[o].open /\ o # b
    <3>1. At(b, o) = 0 /\ At(None, o) = 0 /\ Total(fds, o) \in Nat
      BY <1>3, <2>3, TotalType DEF At
    <3>2. Total(fds', o) = Total(fds, o) /\ ofd'[o] = ofd[o]
      BY <1>5, <1>6, <2>3, <3>1
    <3>3. Sound(ofd[o], Total(fds, o))
      BY <2>3 DEF IInv, Counted
    <3> QED
      BY <3>2, <3>3 DEF Kept
  <2> QED
    BY <2>1, <2>2, <2>3
<1>8. \A q \in Procs, t \in Slots : Handed(q, t)
  BY <1>1, <1>3, SlotHanded
<1>9. Faithful
  BY <1>6, <1>7, <1>8 DEF Faithful
<1> QED
  BY <1>6, <1>9

----------------------------------------------------------------------------
(* Steps that rewrite a whole table                                         *)

LEMMA TableSetTotal ==
  ASSUME IInv, NEW p \in Procs, NEW tab \in Tables, TableSet(p, tab)
  PROVE  \A o \in Ofds : Total(fds', o) = Total(fds, o) - Count(fds[p], o) + Count(tab, o)
<1>1. fds'[p] = tab /\ \A q \in Procs : q # p => fds'[q] = fds[q]
  BY Typed DEF IInv, TableSet
<1>2. \A q \in Procs : q # p => fds'[q] = fds[q]
  BY <1>1
<1>3. \A o \in Ofds : Total(fds', o) = Total(fds, o) - Count(fds[p], o) + Count(fds'[p], o)
  BY <1>2, TableChange, ZenonT(60)
<1>4. fds'[p] = tab
  BY <1>1
<1> QED
  BY <1>3, <1>4

LEMMA TableSetType ==
  ASSUME IInv, NEW p \in Procs, NEW tab \in Tables, TableSet(p, tab)
  PROVE  fds' \in [Procs -> Tables]
  BY Typed DEF IInv, TableSet

\* All a process holds, in numbers: its strace reference and its descriptors.
LEMMA HoldsBound ==
  ASSUME IInv, NEW p \in Procs
  PROVE  \A o \in Ofds :
           /\ Uses(fds[p], o) \in Nat
           /\ Count(fds[p], o) = Uses(fds[p], o) + At(fds[p][Trace], o)
           /\ Uses(fds[p], o) + At(fds[p][Trace], o) <= Total(fds, o)
<1>1. fds[p] \in Tables
  BY Typed DEF IInv
<1> SUFFICES ASSUME NEW o \in Ofds
    PROVE  /\ Uses(fds[p], o) \in Nat
           /\ Count(fds[p], o) = Uses(fds[p], o) + At(fds[p][Trace], o)
           /\ Uses(fds[p], o) + At(fds[p][Trace], o) <= Total(fds, o)
  OBVIOUS
<1>2. Uses(fds[p], o) \in Nat /\ Count(fds[p], o) = Uses(fds[p], o) + At(fds[p][Trace], o)
  BY <1>1, UsesAndTrace
<1>3. Count(fds[p], o) <= Total(fds, o)
  BY UsesBound
<1> QED
  BY <1>2, <1>3

\* Everything is released: the strace reference, then the descriptors.
LEMMA ReleaseTraceFirst ==
  ASSUME IInv, NEW p \in Procs,
         ofd' = UnrefAll(Unref(ofd, fds[p][Trace], Kernel), fds[p], p),
         TableSet(p, Empty)
  PROVE  /\ ofd' \in Map /\ Faithful
         /\ \A o \in Ofds : ofd'[o].kind = ofd[o].kind
<1> DEFINE t == fds[p][Trace]
           d == Unref(ofd, t, Kernel)
           T == [o \in Ofds |-> IF ofd[o].open THEN Total(fds, o) - At(t, o) ELSE 0]
           n == IF t \in Ofds THEN Total(fds, t) ELSE 0
<1>1. ofd \in Map /\ fds[p] \in Tables /\ Trace \in Slots /\ Kernel \in Holders /\ p \in Holders
  BY Typed DEF IInv, Slots, Holders
<1>2. t \in Ofds \cup {None}
  BY <1>1 DEF Tables
<1>3. t # None => /\ t \in Ofds /\ Total(fds, t) > 0
                  /\ ofd[t].open => Live(ofd[t], Total(fds, t))
  BY <1>1, NamedLive
<1>4. None \notin Ofds
  BY FileTableAssumption DEF None, Ofds
<1>5. \A o \in Ofds : Total(fds, o) \in Nat
  BY TotalType
<1>6. \A o \in Ofds : Uses(fds[p], o) \in Nat /\ Uses(fds[p], o) + At(t, o) <= Total(fds, o)
  BY HoldsBound
<1>7. \A o \in Ofds : Total(fds', o) = Total(fds, o) - Count(fds[p], o) + Count(Empty, o)
  BY EmptyTable, TableSetTotal
<1>8. \A o \in Ofds : Count(fds[p], o) = Uses(fds[p], o) + At(t, o) /\ Count(Empty, o) = 0
  BY HoldsBound, EmptyTable
<1>9. n \in Nat /\ (t \in Ofds /\ ofd[t].open => Live(ofd[t], n) /\ n > 0)
  BY <1>3, <1>4, <1>5
<1>10. ofd' = UnrefAll(d, fds[p], p)
  OBVIOUS
<1> HIDE DEF t, n
<1>11. /\ d \in Map
       /\ t \in Ofds /\ ofd[t].open => Sound(d[t], n - 1)
       /\ \A x \in Ofds : d[x].kind = ofd[x].kind
       /\ \A x \in Ofds \ {t} : d[x] = ofd[x]
       /\ \A x \in Ofds : ~ofd[x].open => d[x] = ofd[x]
  BY <1>1, <1>2, <1>9, UnrefStep
<1> HIDE DEF d
<1>12. T \in [Ofds -> Nat] /\ \A o \in Ofds : ofd[o].open => Uses(fds[p], o) <= T[o]
  BY <1>5, <1>6 DEF At
<1>13. ASSUME NEW o \in Ofds PROVE Sound(d[o], T[o])
  <2>1. CASE ~ofd[o].open
    BY <1>11, <2>1, DueType DEF Sound
  <2>2. CASE ofd[o].open /\ o = t
    BY <1>11, <2>2 DEF n, At
  <2>3. CASE ofd[o].open /\ o # t
    <3>1. Sound(ofd[o], Total(fds, o)) /\ At(t, o) = 0 /\ Total(fds, o) \in Nat
      BY <1>5, <2>3 DEF At, IInv, Counted
    <3> QED
      BY <1>11, <2>3, <3>1
  <2> QED
    BY <2>1, <2>2, <2>3
<1>14. \A o \in Ofds : ofd[o].open => T[o] = Total(fds, o) - At(t, o)
  OBVIOUS
<1> HIDE DEF T
<1>15. /\ ofd' \in Map
       /\ \A o \in Ofds : Uses(fds[p], o) <= T[o] => Sound(ofd'[o], T[o] - Uses(fds[p], o))
       /\ \A o \in Ofds : ofd'[o].kind = d[o].kind
       /\ \A o \in Ofds : ~d[o].open => ofd'[o] = d[o]
  <2>1. \A o \in Ofds : d[o].open => Uses(fds[p], o) <= T[o]
    BY <1>11, <1>12
  <2> QED
    BY <1>1, <1>10, <1>11, <1>12, <1>13, <2>1, UnrefAllStep
<1>16. \A o \in Ofds : ofd[o].open => Total(fds', o) = T[o] - Uses(fds[p], o)
  BY <1>5, <1>6, <1>7, <1>8, <1>14 DEF At
<1>17. \A o \in Ofds : Kept(o)
  <2>1. \A o \in Ofds : ofd[o].open => Sound(ofd'[o], Total(fds', o))
    BY <1>12, <1>15, <1>16
  <2>2. \A o \in Ofds : ~ofd[o].open => ofd'[o] = ofd[o] /\ Gone(ofd[o])
    BY <1>11, <1>15, DueType
  <2> QED
    BY <2>1, <2>2 DEF Kept
<1>18. \A q \in Procs, s \in Slots : Handed(q, s)
  BY EmptyTable, TableHanded DEF Empty
<1>19. Faithful
  BY <1>11, <1>15, <1>17, <1>18 DEF Faithful
<1> QED
  BY <1>11, <1>15, <1>19

\* Everything is released: the descriptors, then the strace reference.
LEMMA ReleaseTraceLast ==
  ASSUME IInv, NEW p \in Procs,
         ofd' = Unref(UnrefAll(ofd, fds[p], p), fds[p][Trace], Kernel),
         TableSet(p, Empty)
  PROVE  /\ ofd' \in Map /\ Faithful
         /\ \A o \in Ofds : ofd'[o].kind = ofd[o].kind
<1> DEFINE t == fds[p][Trace]
           d == UnrefAll(ofd, fds[p], p)
           n == IF t \in Ofds /\ ofd[t].open THEN Total(fds, t) - Uses(fds[p], t) ELSE 0
<1>1. ofd \in Map /\ fds[p] \in Tables /\ Trace \in Slots /\ Kernel \in Holders /\ p \in Holders
  BY Typed DEF IInv, Slots, Holders
<1>2. t \in Ofds \cup {None}
  BY <1>1 DEF Tables
<1>3. None \notin Ofds
  BY FileTableAssumption DEF None, Ofds
<1>4. \A o \in Ofds : Total(fds, o) \in Nat
  BY TotalType
<1>5. \A o \in Ofds : Uses(fds[p], o) \in Nat /\ Uses(fds[p], o) + At(t, o) <= Total(fds, o)
  BY HoldsBound
<1>6. \A o \in Ofds : Total(fds', o) = Total(fds, o) - Count(fds[p], o) + Count(Empty, o)
  BY EmptyTable, TableSetTotal
<1>7. \A o \in Ofds : Count(fds[p], o) = Uses(fds[p], o) + At(t, o) /\ Count(Empty, o) = 0
  BY HoldsBound, EmptyTable
<1>8. /\ Due \in [Ofds -> Nat] /\ \A o \in Ofds : Sound(ofd[o], Due[o])
      /\ \A o \in Ofds : Due[o] = IF ofd[o].open THEN Total(fds, o) ELSE 0
      /\ \A o \in Ofds : ~ofd[o].open => Gone(ofd[o])
  BY DueType
<1>9. \A o \in Ofds : ofd[o].open => Uses(fds[p], o) <= Due[o]
  BY <1>4, <1>5, <1>8 DEF At
<1>10. /\ d \in Map
       /\ \A o \in Ofds : Uses(fds[p], o) <= Due[o] => Sound(d[o], Due[o] - Uses(fds[p], o))
       /\ \A o \in Ofds : d[o].kind = ofd[o].kind
       /\ \A o \in Ofds : ~ofd[o].open => d[o] = ofd[o]
  BY <1>1, <1>8, <1>9, UnrefAllStep
<1>11. ofd' = Unref(d, t, Kernel)
  OBVIOUS
<1> HIDE DEF t, d
<1>12. n \in Nat /\ (t \in Ofds /\ d[t].open => Live(d[t], n) /\ n > 0)
  <2>1. n \in Nat
    BY <1>4, <1>5 DEF At
  <2>2. ASSUME t \in Ofds, d[t].open PROVE Live(d[t], n) /\ n > 0
    <3>1. ofd[t].open
      BY <1>10, <2>2
    <3>2. n = Due[t] - Uses(fds[p], t) /\ n > 0
      BY <1>4, <1>5, <1>8, <2>2, <3>1 DEF At
    <3> QED
      BY <1>9, <1>10, <2>2, <3>1, <3>2 DEF Sound
  <2> QED
    BY <2>1, <2>2
<1>13. t \in Ofds /\ ofd[t].open => n = Total(fds, t) - Uses(fds[p], t) /\ n > 0
  BY <1>4, <1>5 DEF At
<1> HIDE DEF n
<1>14. /\ ofd' \in Map
       /\ t \in Ofds /\ d[t].open => Sound(ofd'[t], n - 1)
       /\ \A x \in Ofds : ofd'[x].kind = d[x].kind
       /\ \A x \in Ofds \ {t} : ofd'[x] = d[x]
       /\ \A x \in Ofds : ~d[x].open => ofd'[x] = d[x]
  BY <1>1, <1>2, <1>10, <1>11, <1>12, UnrefStep
<1>15. ASSUME NEW o \in Ofds, ofd[o].open PROVE Sound(ofd'[o], Total(fds', o))
  <2>1. Total(fds', o) = Total(fds, o) - Uses(fds[p], o) - At(t, o)
    BY <1>4, <1>5, <1>6, <1>7 DEF At
  <2>2. Sound(d[o], Total(fds, o) - Uses(fds[p], o))
    BY <1>8, <1>9, <1>10, <1>15
  <2>3. CASE o = t
    <3>1. d[t].open
      BY <1>13, <1>15, <2>2, <2>3 DEF Sound, Live
    <3>2. At(t, o) = 1 /\ n = Total(fds, o) - Uses(fds[p], o)
      BY <1>13, <1>15, <2>3 DEF At
    <3> QED
      BY <1>14, <2>1, <2>3, <3>1, <3>2
  <2>4. CASE o # t
    <3>1. At(t, o) = 0 /\ ofd'[o] = d[o]
      BY <1>14, <2>4 DEF At
    <3>2. Total(fds', o) = Total(fds, o) - Uses(fds[p], o)
      BY <1>4, <1>5, <2>1, <3>1
    <3> QED
      BY <2>2, <3>1, <3>2
  <2> QED
    BY <2>3, <2>4
<1>16. \A o \in Ofds : Kept(o)
  <2>1. \A o \in Ofds : ~ofd[o].open => ofd'[o] = ofd[o] /\ Gone(ofd[o])
    BY <1>8, <1>10, <1>14
  <2> QED
    BY <1>15, <2>1 DEF Kept
<1>17. \A q \in Procs, s \in Slots : Handed(q, s)
  BY EmptyTable, TableHanded DEF Empty
<1>18. Faithful
  BY <1>10, <1>14, <1>16, <1>17 DEF Faithful
<1> QED
  BY <1>10, <1>14, <1>18

\* The descriptors from fd up are dropped.
LEMMA DropFrom ==
  ASSUME IInv, NEW p \in Procs, NEW fd \in Fds, NEW dropped, NEW kept,
         dropped = [s \in Slots |-> IF s >= fd THEN fds[p][s] ELSE None],
         kept = [s \in Slots |-> IF s >= fd THEN None ELSE fds[p][s]],
         ofd' = UnrefAll(ofd, dropped, p),
         TableSet(p, kept)
  PROVE  /\ fds' \in [Procs -> Tables] /\ ofd' \in Map /\ Faithful
         /\ \A o \in Ofds : ofd'[o].kind = ofd[o].kind
<1>1. ofd \in Map /\ fds[p] \in Tables /\ p \in Holders
  BY Typed DEF IInv, Holders
<1>2. kept \in Tables /\ dropped \in Tables
  BY <1>1 DEF Tables
<1>3. None \notin Ofds /\ Trace \notin Fds /\ ~(Trace >= fd)
  BY FileTableAssumption DEF None, Ofds, Trace, Fds
<1>4. ASSUME NEW o \in Ofds
      PROVE  /\ Uses(dropped, o) \in Nat
             /\ Count(fds[p], o) = Count(kept, o) + Uses(dropped, o)
  <2> DEFINE A == Named(kept, o)
             B == Named(dropped, o)
  <2>1. Named(fds[p], o) = A \cup B /\ A \cap B = {}
    BY <1>3 DEF Named
  <2>2. IsFiniteSet(A) /\ IsFiniteSet(B) /\ Count(kept, o) \in Nat /\ Count(dropped, o) \in Nat
    BY CountType
  <2>3. Count(kept, o) = Cardinality(A) /\ Count(dropped, o) = Cardinality(B)
        /\ Count(fds[p], o) = Cardinality(A \cup B)
    BY <2>1 DEF Count
  <2> HIDE DEF A, B
  <2>4. Cardinality(A \cup B) = Cardinality(A) + Cardinality(B) - Cardinality(A \cap B)
    BY <2>2, FS_Union
  <2>5. Cardinality(A \cap B) = 0
    BY <2>1, FS_EmptySet
  <2>6. Uses(dropped, o) \in Nat /\ Count(dropped, o) = Uses(dropped, o) + At(dropped[Trace], o)
    BY <1>2, UsesAndTrace
  <2>7. At(dropped[Trace], o) = 0
    BY <1>3 DEF At, Slots
  <2> QED
    BY <2>2, <2>3, <2>4, <2>5, <2>6, <2>7
<1>5. /\ Due \in [Ofds -> Nat] /\ \A o \in Ofds : Sound(ofd[o], Due[o])
      /\ \A o \in Ofds : Due[o] = IF ofd[o].open THEN Total(fds, o) ELSE 0
      /\ \A o \in Ofds : ~ofd[o].open => Gone(ofd[o])
  BY DueType
<1>6. \A o \in Ofds : /\ Count(fds[p], o) \in Nat /\ Total(fds, o) \in Nat
                      /\ Count(fds[p], o) <= Total(fds, o) /\ Count(kept, o) \in Nat
  BY UsesBound, CountType
<1>7. \A o \in Ofds : ofd[o].open => Uses(dropped, o) <= Due[o]
  BY <1>4, <1>5, <1>6
<1>8. /\ ofd' \in Map
      /\ \A o \in Ofds : Uses(dropped, o) <= Due[o]
                         => Sound(ofd'[o], Due[o] - Uses(dropped, o))
      /\ \A o \in Ofds : ofd'[o].kind = ofd[o].kind
      /\ \A o \in Ofds : ~ofd[o].open => ofd'[o] = ofd[o]
  BY <1>1, <1>2, <1>5, <1>7, UnrefAllStep
<1>9. \A o \in Ofds : Total(fds', o) = Total(fds, o) - Count(fds[p], o) + Count(kept, o)
  BY <1>2, TableSetTotal
<1>10. \A o \in Ofds : ofd[o].open => Total(fds', o) = Due[o] - Uses(dropped, o)
  <2> SUFFICES ASSUME NEW o \in Ofds, ofd[o].open
               PROVE  Total(fds', o) = Due[o] - Uses(dropped, o)
    OBVIOUS
  <2>1. Total(fds', o) = Total(fds, o) - Count(fds[p], o) + Count(kept, o)
    BY <1>9
  <2>2. /\ Count(fds[p], o) = Count(kept, o) + Uses(dropped, o)
        /\ Uses(dropped, o) \in Nat /\ Count(kept, o) \in Nat /\ Total(fds, o) \in Nat
    BY <1>4, <1>6
  <2>3. Due[o] = Total(fds, o)
    BY <1>5
  <2> QED
    BY <2>1, <2>2, <2>3
<1>11. fds' \in [Procs -> Tables]
  BY <1>2, TableSetType
<1>12. \A o \in Ofds : Kept(o)
  <2>1. \A o \in Ofds : ofd[o].open => Sound(ofd'[o], Total(fds', o))
    BY <1>7, <1>8, <1>10
  <2> QED
    BY <1>5, <1>8, <2>1 DEF Kept
<1>13. \A q \in Procs, s \in Slots : Handed(q, s)
  BY <1>2, TableHanded
<1>14. Faithful
  BY <1>8, <1>12, <1>13 DEF Faithful
<1> QED
  BY <1>8, <1>11, <1>14

----------------------------------------------------------------------------
(* The actions                                                              *)

LEMMA InitInv == Init => IInv
<1> SUFFICES ASSUME Init PROVE IInv
  OBVIOUS
<1> USE DEF Init
<1>1. Unmade \in Desc
  BY DEF Unmade, Desc, Kinds
<1>2. TypeOK
  BY <1>1, EmptyTable, FileTableAssumption DEF TypeOK, Desc, Tables, None
<1>3. Stale
  BY DEF Stale, Empty
<1>4. Counted
  <2> SUFFICES ASSUME NEW o \in Ofds PROVE Sound(ofd[o], 0)
    BY DEF Counted, Unmade
  <2> QED
    BY DEF Sound, Gone, Unmade
<1>5. MadeBelowNext
  BY FileTableAssumption DEF MadeBelowNext, Unmade, Ofds
<1> QED
  BY <1>2, <1>3, <1>4, <1>5 DEF IInv, Unstarted, StdOnce, StdMade

LEMMA OpenInv == ASSUME IInv, NEW p \in Procs, Open(p) PROVE IInv'
<1>1. PICK fd \in Fds :
        /\ Running(p) /\ next \in Ofds /\ fds[p][fd] = None
        /\ ofd' = Ref([ofd EXCEPT ![next] = Made("file")], next, p)
        /\ fds' = [fds EXCEPT ![p][fd] = next]
        /\ next' = next + 1
        /\ UNCHANGED <<state, follow, std, services, making, acts>>
  BY DEF Open, Free
<1>2. Unref(Ref([ofd EXCEPT ![next] = Made("file")], next, p), fds[p][fd], p)
        = Ref([ofd EXCEPT ![next] = Made("file")], next, p)
  BY <1>1 DEF Unref
<1>3. ofd' = Unref(Ref([ofd EXCEPT ![next] = Made("file")], next, p), fds[p][fd], p)
  BY <1>1, <1>2
<1>4. /\ fds' \in [Procs -> Tables] /\ ofd' \in Map /\ Faithful
      /\ \A o \in Ofds : ofd'[o].kind = "unmade" <=> o >= next + 1
  BY <1>1, <1>3, OpenSlot
<1>5. \A q \in Procs : state'[q] = "none" /\ q # making' => fds'[q] = Empty
  BY <1>1, Typed DEF IInv, Unstarted, Running
<1>6. next' \in 1..(MaxOfd + 1)
  BY <1>1, FileTableAssumption DEF Ofds
<1> QED
  BY <1>1, <1>4, <1>5, <1>6, CallStep DEF IInv, TypeOK

LEMMA CloseInv == ASSUME IInv, NEW p \in Procs, Close(p) PROVE IInv'
<1>1. PICK fd \in Fds :
        /\ Running(p) /\ fds[p][fd] # None
        /\ ofd' = Unref(ofd, fds[p][fd], p)
        /\ SlotSet(p, fd, None)
        /\ UNCHANGED <<state, follow, next, std, services, making, acts>>
  BY DEF Close, SlotSet
<1>2. /\ ofd' \in Map /\ Faithful
      /\ \A o \in Ofds : ofd'[o].kind = ofd[o].kind
  BY <1>1, CloseSlot
<1>3. fd \in Slots
  BY DEF Slots
<1>4. fds' \in [Procs -> Tables]
  BY <1>1, <1>3, SlotSetType
<1>5. \A q \in Procs : state'[q] = "none" /\ q # making' => fds'[q] = Empty
  BY <1>1, Typed DEF IInv, Unstarted, Running, SlotSet
<1> QED
  BY <1>1, <1>2, <1>4, <1>5, QuietStep DEF IInv, TypeOK

LEMMA DupInv == ASSUME IInv, NEW p \in Procs, Dup(p) \/ Dup2(p) PROVE IInv'
<1>1. PICK fd \in Fds, to \in Fds :
        /\ Running(p) /\ Names(p, fd)
        /\ ofd' = Unref(Ref(ofd, fds[p][fd], p), fds[p][to], p)
        /\ SlotSet(p, to, fds[p][fd])
        /\ UNCHANGED <<state, follow, next, std, services, making, acts>>
  <2>1. CASE Dup(p)
    <3>1. PICK fd \in Fds, to \in Fds :
            /\ Running(p) /\ Names(p, fd) /\ fds[p][to] = None
            /\ ofd' = Ref(ofd, fds[p][fd], p)
            /\ fds' = [fds EXCEPT ![p][to] = fds[p][fd]]
            /\ UNCHANGED <<state, follow, next, std, services, making, acts>>
      BY <2>1 DEF Dup, FreeFrom
    <3>2. Unref(Ref(ofd, fds[p][fd], p), fds[p][to], p) = Ref(ofd, fds[p][fd], p)
      BY <3>1 DEF Unref
    <3> QED
      BY <3>1, <3>2 DEF SlotSet
  <2>2. CASE Dup2(p)
    BY <2>2 DEF Dup2, SlotSet
  <2> QED
    BY <2>1, <2>2
<1>2. fd \in Slots /\ to \in Slots
  BY DEF Slots
<1>3. fds[p][fd] \in Ofds /\ Total(fds, fds[p][fd]) > 0 /\ ofd[fds[p][fd]].open
  BY <1>1, <1>2, NamedLive DEF Names
<1>4. /\ ofd' \in Map /\ Faithful
      /\ \A o \in Ofds : ofd'[o].kind = ofd[o].kind
  BY <1>1, <1>3, DupSlot
<1>5. fds' \in [Procs -> Tables]
  BY <1>1, <1>2, <1>3, SlotSetType
<1>6. \A q \in Procs : state'[q] = "none" /\ q # making' => fds'[q] = Empty
  BY <1>1, Typed DEF IInv, Unstarted, Running, SlotSet
<1> QED
  BY <1>1, <1>4, <1>5, <1>6, QuietStep DEF IInv, TypeOK

LEMMA ExitInv == ASSUME IInv, NEW p \in Procs, Exit(p) PROVE IInv'
<1>1. /\ ofd' \in Map /\ Faithful
      /\ \A o \in Ofds : ofd'[o].kind = ofd[o].kind
  BY ReleaseTraceFirst DEF Exit, TableSet
<1>2. fds' \in [Procs -> Tables]
  BY EmptyTable, TableSetType DEF Exit, TableSet
<1>3. \A q \in Procs : state'[q] = "none" /\ q # making' => fds'[q] = Empty
  BY Typed DEF IInv, Unstarted, Exit, TypeOK
<1> QED
  BY <1>1, <1>2, <1>3, QuietStep DEF IInv, TypeOK, Exit

\* The child being made, and the step of its request that is carried out.
LEMMA ActingFacts ==
  ASSUME IInv, Acting
  PROVE  /\ making \in Procs /\ acts + 1 \in 0..MaxActions
         /\ \A s \in Slots : fds[making][s] # None => ofd[fds[making][s]].open
<1>1. making \in Procs /\ acts + 1 \in 0..MaxActions
  BY FileTableAssumption DEF IInv, TypeOK, Acting
<1>2. \A s \in Slots : fds[making][s] # None => ofd[fds[making][s]].open
  BY <1>1 DEF IInv, Stale, StdSlot, Acting
<1> QED
  BY <1>1, <1>2

LEMMA ActDup2Inv == ASSUME IInv, ActDup2 PROVE IInv'
<1>0. /\ making \in Procs /\ acts + 1 \in 0..MaxActions
      /\ \A s \in Slots : fds[making][s] # None => ofd[fds[making][s]].open
  BY ActingFacts DEF ActDup2
<1>1. PICK fd \in Fds, to \in Fds :
        /\ fds[making][fd] # None
        /\ ofd' = Unref(Ref(ofd, fds[making][fd], making), fds[making][to], making)
        /\ SlotSet(making, to, fds[making][fd])
        /\ acts' = acts + 1
        /\ UNCHANGED <<state, follow, next, std, services, making>>
  BY DEF ActDup2, SlotSet
<1>2. fd \in Slots /\ to \in Slots
  BY DEF Slots
<1>3. /\ fds[making][fd] \in Ofds /\ Total(fds, fds[making][fd]) > 0
      /\ ofd[fds[making][fd]].open
  BY <1>0, <1>1, <1>2, NamedLive
<1>4. /\ ofd' \in Map /\ Faithful
      /\ \A o \in Ofds : ofd'[o].kind = ofd[o].kind
  BY <1>0, <1>1, <1>3, DupSlot
<1>5. fds' \in [Procs -> Tables]
  BY <1>0, <1>1, <1>2, <1>3, SlotSetType
<1>6. \A q \in Procs : state'[q] = "none" /\ q # making' => fds'[q] = Empty
  BY <1>0, <1>1, Typed DEF IInv, Unstarted, SlotSet
<1> QED
  BY <1>0, <1>1, <1>4, <1>5, <1>6, QuietStep DEF IInv, TypeOK

LEMMA ActOpenInv == ASSUME IInv, ActOpen PROVE IInv'
<1>0. making \in Procs /\ acts + 1 \in 0..MaxActions
  BY ActingFacts DEF ActOpen
<1>1. PICK fd \in Fds :
        /\ next \in Ofds
        /\ ofd' = Unref(Ref([ofd EXCEPT ![next] = Made("file")], next, making),
                        fds[making][fd], making)
        /\ fds' = [fds EXCEPT ![making][fd] = next]
        /\ next' = next + 1
        /\ acts' = acts + 1
        /\ UNCHANGED <<state, follow, std, services, making>>
  BY DEF ActOpen
<1>2. /\ fds' \in [Procs -> Tables] /\ ofd' \in Map /\ Faithful
      /\ \A o \in Ofds : ofd'[o].kind = "unmade" <=> o >= next + 1
  BY <1>0, <1>1, OpenSlot
<1>3. \A q \in Procs : state'[q] = "none" /\ q # making' => fds'[q] = Empty
  BY <1>0, <1>1, Typed DEF IInv, Unstarted
<1>4. next' \in 1..(MaxOfd + 1)
  BY <1>1, FileTableAssumption DEF Ofds
<1> QED
  BY <1>0, <1>1, <1>2, <1>3, <1>4, CallStep DEF IInv, TypeOK

LEMMA ActCloseInv == ASSUME IInv, ActClose PROVE IInv'
<1>0. making \in Procs /\ acts + 1 \in 0..MaxActions
  BY ActingFacts DEF ActClose
<1>1. PICK fd \in Fds :
        /\ fds[making][fd] # None
        /\ ofd' = Unref(ofd, fds[making][fd], making)
        /\ SlotSet(making, fd, None)
        /\ acts' = acts + 1
        /\ UNCHANGED <<state, follow, next, std, services, making>>
  BY DEF ActClose, SlotSet
<1>2. /\ ofd' \in Map /\ Faithful
      /\ \A o \in Ofds : ofd'[o].kind = ofd[o].kind
  BY <1>0, <1>1, CloseSlot
<1>3. fd \in Slots
  BY DEF Slots
<1>4. fds' \in [Procs -> Tables]
  BY <1>0, <1>1, <1>3, SlotSetType
<1>5. \A q \in Procs : state'[q] = "none" /\ q # making' => fds'[q] = Empty
  BY <1>0, <1>1, Typed DEF IInv, Unstarted, SlotSet
<1> QED
  BY <1>0, <1>1, <1>2, <1>4, <1>5, QuietStep DEF IInv, TypeOK

LEMMA ActCloseFromInv == ASSUME IInv, ActCloseFrom PROVE IInv'
<1>0. making \in Procs /\ acts + 1 \in 0..MaxActions
  BY ActingFacts DEF ActCloseFrom
<1>1. PICK fd \in Fds :
        /\ ofd' = UnrefAll(ofd, [s \in Slots |-> IF s >= fd THEN fds[making][s] ELSE None], making)
        /\ fds' = [fds EXCEPT ![making] = [s \in Slots |-> IF s >= fd THEN None ELSE @[s]]]
        /\ acts' = acts + 1
        /\ UNCHANGED <<state, follow, next, std, services, making>>
  BY DEF ActCloseFrom
<1> DEFINE dropped == [s \in Slots |-> IF s >= fd THEN fds[making][s] ELSE None]
           kept == [s \in Slots |-> IF s >= fd THEN None ELSE fds[making][s]]
<1>2. ofd' = UnrefAll(ofd, dropped, making) /\ TableSet(making, kept)
  BY <1>1 DEF TableSet
<1>3. /\ fds' \in [Procs -> Tables] /\ ofd' \in Map /\ Faithful
      /\ \A o \in Ofds : ofd'[o].kind = ofd[o].kind
  BY <1>0, <1>2, DropFrom
<1>4. \A q \in Procs : state'[q] = "none" /\ q # making' => fds'[q] = Empty
  BY <1>0, <1>1, <1>2, Typed DEF IInv, Unstarted, TableSet
<1> QED
  BY <1>0, <1>1, <1>3, <1>4, QuietStep DEF IInv, TypeOK

LEMMA ActFailInv == ASSUME IInv, ActFail PROVE IInv'
<1>0. making \in Procs
  BY ActingFacts DEF ActFail
<1>1. /\ ofd' \in Map /\ Faithful
      /\ \A o \in Ofds : ofd'[o].kind = ofd[o].kind
  BY <1>0, ReleaseTraceLast DEF ActFail, TableSet
<1>2. fds' \in [Procs -> Tables]
  BY <1>0, EmptyTable, TableSetType DEF ActFail, TableSet
<1>3. \A q \in Procs : state'[q] = "none" /\ q # making' => fds'[q] = Empty
  BY <1>0, Typed DEF IInv, Unstarted, ActFail, TypeOK
<1> QED
  BY <1>0, <1>1, <1>2, <1>3, QuietStep DEF IInv, TypeOK, ActFail

\* Steps that leave the tables and the descriptions alone.
LEMMA StillInv ==
  ASSUME IInv, UNCHANGED <<fds, ofd, next, std, services, acts>>,
         follow' \subseteq Procs, state' \in [Procs -> {"none", "live", "dead", "lost"}],
         making' \in Procs \cup {None},
         \A q \in Procs : state'[q] = "none" /\ q # making' => fds'[q] = Empty
  PROVE  IInv'
<1>1. ASSUME NEW o \in Ofds PROVE Kept(o)
  <2>1. Total(fds', o) = Total(fds, o)
    BY DEF Total, Refs
  <2>2. Sound(ofd[o], Due[o]) /\ Due[o] = IF ofd[o].open THEN Total(fds, o) ELSE 0
    BY DueType
  <2> QED
    BY <2>1, <2>2 DEF Kept, Sound
<1>2. \A p \in Procs, s \in Slots : Handed(p, s)
  BY DEF Handed
<1>3. Faithful
  BY <1>1, <1>2 DEF Faithful
<1>4. fds' \in [Procs -> Tables] /\ ofd' \in Map /\ acts' \in 0..MaxActions
  BY Typed DEF IInv, TypeOK
<1> QED
  BY <1>3, <1>4, QuietStep

LEMMA StartInv == ASSUME IInv, Start PROVE IInv'
<1>1. \A q \in Procs : state'[q] = "none" /\ q # making' => fds'[q] = Empty
  BY DEF Start, IInv, Unstarted, TypeOK
<1> QED
  BY <1>1, StillInv DEF Start, IInv, TypeOK

LEMMA WorkerThrewInv == ASSUME IInv, WorkerThrew PROVE IInv'
<1>1. \A q \in Procs : state'[q] = "none" /\ q # making' => fds'[q] = Empty
  BY DEF WorkerThrew, IInv, Unstarted, TypeOK
<1> QED
  BY <1>1, StillInv DEF WorkerThrew, IInv, TypeOK

LEMMA SpawnRefusedInv == ASSUME IInv, NEW p \in Procs, NEW c \in Procs, SpawnRefused(p, c) PROVE IInv'
<1>1. \A q \in Procs : state'[q] = "none" /\ q # making' => fds'[q] = Empty
  BY DEF SpawnRefused, IInv, Unstarted, TypeOK
<1> QED
  BY <1>1, StillInv DEF SpawnRefused, IInv, TypeOK

\* Two new descriptions, one after the other, in two free slots.
LEMMA PipeInv == ASSUME IInv, NEW p \in Procs, Pipe(p) PROVE IInv'
<1>1. PICK r \in Fds, w \in Fds :
        /\ Running(p) /\ next \in Ofds /\ next + 1 \in Ofds
        /\ Free(fds[p], r) /\ Free([fds[p] EXCEPT ![r] = next], w)
        /\ ofd' = Ref(Ref([ofd EXCEPT ![next] = Made("read"), ![next + 1] = Made("write")],
                          next, p), next + 1, p)
        /\ TableSet(p, [[fds[p] EXCEPT ![r] = next] EXCEPT ![w] = next + 1])
        /\ next' = next + 2
        /\ UNCHANGED <<state, follow, std, services, making, acts>>
  BY DEF Pipe, TableSet
<1> DEFINE a == next
           b == next + 1
           d0 == [ofd EXCEPT ![a] = Made("read"), ![b] = Made("write")]
           d1 == Ref(d0, a, p)
           old == fds[p]
           tab1 == [old EXCEPT ![r] = a]
           tab == [tab1 EXCEPT ![w] = b]
<1>2. /\ ofd \in Map /\ old \in Tables /\ p \in Holders /\ r \in Slots /\ w \in Slots
      /\ a \in Ofds /\ b \in Ofds /\ a # b /\ None \notin Ofds
  BY <1>1, Typed, FileTableAssumption DEF IInv, Slots, Holders, Ofds, None
<1>3. tab1 \in Tables /\ tab \in Tables /\ tab1[w] = None /\ old[r] = None
  BY <1>1, <1>2 DEF Tables, Free
<1>4. ofd' = Ref(d1, b, p) /\ TableSet(p, tab)
  BY <1>1
<1>5. \A o \in Ofds : Count(tab1, o) = Count(old, o) - At(None, o) + At(a, o)
  BY <1>2, <1>3, SlotChange
<1> HIDE DEF tab1
<1>6. \A o \in Ofds : Count(tab, o) = Count(tab1, o) - At(None, o) + At(b, o)
  BY <1>2, <1>3, SlotChange
<1>7. \A o \in Ofds : Count(old, o) \in Nat /\ Total(fds, o) \in Nat
  BY CountType, TotalType
<1>8. fds' \in [Procs -> Tables]
        /\ \A o \in Ofds : Total(fds', o) = Total(fds, o) - Count(old, o) + Count(tab, o)
  BY <1>3, <1>4, TableSetTotal, TableSetType
<1>9. ASSUME NEW o \in Ofds PROVE Total(fds', o) = Total(fds, o) + At(a, o) + At(b, o)
  <2>1. At(None, o) = 0 /\ At(a, o) \in Nat /\ At(b, o) \in Nat
    BY <1>2 DEF At
  <2>2. /\ Count(tab1, o) = Count(old, o) - At(None, o) + At(a, o)
        /\ Count(tab, o) = Count(tab1, o) - At(None, o) + At(b, o)
        /\ Total(fds', o) = Total(fds, o) - Count(old, o) + Count(tab, o)
        /\ Count(old, o) \in Nat /\ Total(fds, o) \in Nat
    BY <1>5, <1>6, <1>7, <1>8
  <2> HIDE DEF a, b, old, tab
  <2> QED
    BY <2>1, <2>2
<1>10. Total(fds, a) = 0 /\ Total(fds, b) = 0
  <2>1. a >= next /\ b >= next
    BY <1>2 DEF Ofds
  <2> QED
    BY <1>2, <2>1, NewUnnamed
<1>11. /\ Made("read") \in Desc /\ Live(Made("read"), 0) /\ Made("read").kind = "read"
       /\ Made("write") \in Desc /\ Live(Made("write"), 0) /\ Made("write").kind = "write"
  BY MadeLive DEF Kinds, PipeEnds
<1>12. /\ d0 \in Map /\ d0[a] = Made("read") /\ d0[b] = Made("write")
       /\ \A o \in Ofds \ {a, b} : d0[o] = ofd[o]
  BY <1>2, <1>11 DEF Map
<1> HIDE DEF d0
<1>13. /\ d1 \in Map /\ Live(d1[a], 1)
       /\ \A x \in Ofds : d1[x].kind = d0[x].kind
       /\ \A x \in Ofds \ {a} : d1[x] = d0[x]
  <2>1. Live(d0[a], 0) /\ 0 \in Nat /\ 0 + 1 = 1
    BY <1>11, <1>12
  <2> QED
    BY <1>2, <1>12, <2>1, RefStep
<1> HIDE DEF d1
<1>14. /\ ofd' \in Map /\ Live(ofd'[b], 1)
       /\ \A x \in Ofds : ofd'[x].kind = d1[x].kind
       /\ \A x \in Ofds \ {b} : ofd'[x] = d1[x]
  <2>1. Live(d1[b], 0) /\ 0 \in Nat /\ 0 + 1 = 1
    BY <1>2, <1>11, <1>12, <1>13
  <2> QED
    BY <1>2, <1>4, <1>13, <2>1, RefStep
<1>15. ASSUME NEW o \in Ofds
       PROVE  /\ o \in {a, b} => Sound(ofd'[o], Total(fds', o))
              /\ o \notin {a, b} => ofd'[o] = ofd[o] /\ Total(fds', o) = Total(fds, o)
              /\ ofd'[o].kind = "unmade" <=> o >= next + 2
  <2>1. CASE o = a
    <3>1. Total(fds', o) = 1 /\ ofd'[o].kind = "read"
      BY <1>2, <1>9, <1>10, <1>11, <1>12, <1>13, <1>14, <2>1 DEF At
    <3>2. Live(ofd'[o], 1)
      BY <1>2, <1>13, <1>14, <2>1
    <3> QED
      BY <1>2, <2>1, <3>1, <3>2 DEF Sound, Ofds
  <2>2. CASE o = b
    <3>1. Total(fds', o) = 1 /\ ofd'[o].kind = "write"
      BY <1>2, <1>9, <1>10, <1>11, <1>12, <1>13, <1>14, <2>2 DEF At
    <3> QED
      BY <1>2, <1>14, <2>2, <3>1 DEF Sound, Ofds
  <2>3. CASE o # a /\ o # b
    <3>1. Total(fds', o) = Total(fds, o) /\ ofd'[o] = ofd[o]
      BY <1>7, <1>9, <1>12, <1>13, <1>14, <2>3 DEF At
    <3>2. o >= next <=> o >= next + 2
      BY <1>2, <2>3 DEF Ofds
    <3> QED
      BY <2>3, <3>1, <3>2 DEF IInv, MadeBelowNext
  <2> QED
    BY <2>1, <2>2, <2>3
<1>18. ASSUME NEW o \in Ofds PROVE Kept(o)
  <2>1. CASE o \in {a, b}
    BY <1>15, <2>1 DEF Kept
  <2>2. CASE o \notin {a, b}
    <3>1. Sound(ofd[o], Due[o]) /\ Due[o] = IF ofd[o].open THEN Total(fds, o) ELSE 0
      BY DueType
    <3> QED
      BY <1>15, <2>2, <3>1 DEF Kept, Sound
  <2> QED
    BY <2>1, <2>2
<1>19. ASSUME NEW t \in Slots
       PROVE  tab[t] \in {None, old[t]} \/ Sound(ofd'[tab[t]], Total(fds', tab[t]))
  <2>1. tab[t] \in {a, b, old[t]}
    BY <1>2 DEF tab, tab1, Tables
  <2>2. a \in Ofds /\ b \in Ofds
    BY <1>2
  <2> QED
    BY <1>15, <2>1, <2>2
<1>20. \A q \in Procs, t \in Slots : Handed(q, t)
  BY <1>3, <1>4, <1>19, TableHanded DEF old
<1>21. \A o \in Ofds : ofd[o].kind # "unmade" => ofd'[o].kind = ofd[o].kind
  <2>1. ofd[a].kind = "unmade" /\ ofd[b].kind = "unmade"
    BY <1>2 DEF IInv, MadeBelowNext, Ofds
  <2> QED
    BY <1>15, <2>1
<1>22. Faithful
  BY <1>18, <1>20, <1>21 DEF Faithful
<1>16. \A q \in Procs : state'[q] = "none" /\ q # making' => fds'[q] = Empty
  BY <1>1, Typed DEF IInv, Unstarted, Running, TableSet
<1>17. next' \in 1..(MaxOfd + 1)
  BY <1>1, FileTableAssumption DEF Ofds
<1> QED
  BY <1>1, <1>8, <1>14, <1>15, <1>16, <1>17, <1>22, CallStep DEF IInv, TypeOK

----------------------------------------------------------------------------
(* Spawning                                                                 *)

\* A fresh pid holds nothing.
LEMMA FreshEmpty ==
  ASSUME IInv, NEW c \in Procs, Fresh(c)
  PROVE  /\ fds[c] = Empty
         /\ \A o \in Ofds : Count(fds[c], o) = 0
<1>1. making = None /\ state[c] = "none" /\ c # None
  BY FileTableAssumption DEF Fresh, Idle, None, Kernel
<1>2. fds[c] = Empty
  BY <1>1 DEF IInv, Unstarted
<1> QED
  BY <1>2, EmptyTable

LEMMA ChildStep ==
  ASSUME IInv, NEW p \in Procs, NEW c \in Procs, NEW tr \in Ofds \cup {None},
         Fresh(c), Child(p, c, tr), tr \in Ofds => Total(fds, tr) > 0 /\ ofd[tr].open
  PROVE  /\ fds' \in [Procs -> Tables] /\ ofd' \in Map /\ Faithful
         /\ \A o \in Ofds : ofd'[o].kind = ofd[o].kind
         /\ \A q \in Procs \ {c} : fds'[q] = fds[q]
<1> DEFINE tab == Inherited(p)
           d == RefAll(ofd, tab, c)
           new == [tab EXCEPT ![Trace] = tr]
<1>1. ofd \in Map /\ c \in Holders /\ Kernel \in Holders /\ Trace \in Slots /\ None \notin Ofds
  BY Typed, FileTableAssumption DEF IInv, Holders, Slots, None, Ofds
<1>2. tab \in Tables /\ tab[Trace] = None
  BY Typed, FileTableAssumption DEF IInv, Inherited, Tables, Fds, Trace, Slots
<1>3. /\ TableSet(c, new)
      /\ ofd' = IF tr = None THEN d ELSE Ref(d, tr, Kernel)
  BY DEF Child, TableSet
<1>4. /\ Due \in [Ofds -> Nat] /\ \A o \in Ofds : Sound(ofd[o], Due[o])
      /\ \A o \in Ofds : Due[o] = IF ofd[o].open THEN Total(fds, o) ELSE 0
      /\ \A o \in Ofds : ~ofd[o].open => Gone(ofd[o])
  BY DueType
<1>5. ASSUME NEW o \in Ofds, Uses(tab, o) > 0 PROVE Total(fds, o) > 0 /\ ofd[o].open
  <2>1. {s \in Fds : tab[s] = o} # {}
    BY <1>5, FS_EmptySet DEF Uses
  <2>2. PICK s \in Fds : tab[s] = o
    BY <2>1
  <2>3. s \in Slots /\ fds[p][s] = o /\ fds[p][s] # None /\ ofd[o].open
    BY <1>1, <2>2 DEF Inherited, Slots, Names
  <2> QED
    BY <2>3, NamedLive
<1>6. \A o \in Ofds : Uses(tab, o) > 0 => Due[o] > 0
  BY <1>4, <1>5
<1>7. new \in Tables
  BY <1>2 DEF Tables
<1>8. \A o \in Ofds : Count(new, o) = Count(tab, o) - At(tab[Trace], o) + At(tr, o)
  BY <1>1, <1>2, SlotChange
<1> HIDE DEF new, tab
<1>9. /\ d \in Map
      /\ \A o \in Ofds : Sound(d[o], Due[o] + Uses(tab, o))
      /\ \A o \in Ofds : d[o].kind = ofd[o].kind
      /\ \A o \in Ofds : ~ofd[o].open => d[o] = ofd[o]
  BY <1>1, <1>2, <1>4, <1>6, RefAllStep
<1>10. \A o \in Ofds : Uses(tab, o) \in Nat /\ Count(tab, o) = Uses(tab, o) + At(tab[Trace], o)
  BY <1>2, UsesAndTrace
<1>11. \A o \in Ofds : Total(fds', o) = Total(fds, o) - Count(fds[c], o) + Count(new, o)
  BY <1>3, <1>7, TableSetTotal
<1>12. \A o \in Ofds : Count(fds[c], o) = 0 /\ Total(fds, o) \in Nat
  BY FreshEmpty, TotalType
<1>13. \A o \in Ofds : ofd[o].open => Total(fds', o) = Due[o] + Uses(tab, o) + At(tr, o)
  <2> SUFFICES ASSUME NEW o \in Ofds, ofd[o].open
               PROVE  Total(fds', o) = Due[o] + Uses(tab, o) + At(tr, o)
    OBVIOUS
  <2>1. At(tab[Trace], o) = 0 /\ At(tr, o) \in Nat
    BY <1>1, <1>2 DEF At
  <2>2. Due[o] = Total(fds, o) /\ Total(fds, o) \in Nat /\ Uses(tab, o) \in Nat
    BY <1>4, <1>10, <1>12
  <2>3. Count(new, o) = Uses(tab, o) + At(tr, o)
    BY <1>8, <1>10, <2>1, <2>2
  <2> QED
    BY <1>11, <1>12, <2>1, <2>2, <2>3
<1> HIDE DEF d
<1>14. /\ ofd' \in Map
       /\ \A o \in Ofds : ofd[o].open => Sound(ofd'[o], Total(fds', o))
       /\ \A o \in Ofds : ~ofd[o].open => ofd'[o] = ofd[o]
       /\ \A o \in Ofds : ofd'[o].kind = ofd[o].kind
  <2>1. CASE tr = None
    <3>1. ofd' = d /\ \A o \in Ofds : At(tr, o) = 0
      BY <1>1, <1>3, <2>1 DEF At
    <3>2. \A o \in Ofds : ofd[o].open => Total(fds', o) = Due[o] + Uses(tab, o)
      BY <1>4, <1>10, <1>13, <3>1
    <3> QED
      BY <1>9, <3>1, <3>2
  <2>2. CASE tr \in Ofds
    <3> DEFINE n == Due[tr] + Uses(tab, tr)
    <3>1. ofd' = Ref(d, tr, Kernel) /\ n \in Nat /\ n > 0 /\ Live(d[tr], n)
      BY <1>1, <1>3, <1>4, <1>9, <1>10, <2>2 DEF Sound
    <3>2. Total(fds', tr) = n + 1
      BY <1>13, <2>2 DEF At
    <3> HIDE DEF n
    <3>3. /\ ofd' \in Map /\ Live(ofd'[tr], n + 1)
          /\ \A x \in Ofds : ofd'[x].kind = d[x].kind
          /\ \A x \in Ofds \ {tr} : ofd'[x] = d[x]
      BY <1>1, <1>9, <2>2, <3>1, RefStep
    <3>4. ASSUME NEW o \in Ofds, ofd[o].open PROVE Sound(ofd'[o], Total(fds', o))
      <4>1. CASE o = tr
        BY <3>1, <3>2, <3>3, <4>1 DEF Sound
      <4>2. CASE o # tr
        <5>1. Total(fds', o) = Due[o] + Uses(tab, o)
          BY <1>4, <1>10, <1>13, <3>4, <4>2 DEF At
        <5> QED
          BY <1>9, <3>3, <4>2, <5>1
      <4> QED
        BY <4>1, <4>2
    <3> QED
      BY <1>9, <2>2, <3>3, <3>4
  <2> QED
    BY <2>1, <2>2
<1>15. fds' \in [Procs -> Tables]
  BY <1>3, <1>7, TableSetType
<1>16. \A q \in Procs \ {c} : fds'[q] = fds[q]
  BY <1>3, Typed DEF IInv, TableSet
<1>17. \A o \in Ofds : Kept(o)
  BY <1>4, <1>14 DEF Kept
<1>18. ASSUME NEW s \in Slots
       PROVE  new[s] \in {None, fds[c][s]} \/ Sound(ofd'[new[s]], Total(fds', new[s]))
  <2>1. CASE new[s] \in Ofds /\ ofd[new[s]].open
    BY <1>14, <2>1
  <2>2. CASE s = Trace
    <3>1. new[s] = tr
      BY <1>1, <1>2, <2>2 DEF new, Tables
    <3> QED
      BY <1>1, <2>1, <3>1
  <2>3. CASE s # Trace
    <3>1. new[s] = IF s \in Fds /\ Names(p, s) THEN fds[p][s] ELSE None
      BY <1>2, <2>3 DEF new, tab, Tables, Inherited
    <3>2. new[s] \in Ofds \cup {None}
      BY <1>7 DEF Tables
    <3> QED
      BY <2>1, <3>1, <3>2 DEF Names
  <2> QED
    BY <2>2, <2>3
<1>19. \A q \in Procs, s \in Slots : Handed(q, s)
  BY <1>3, <1>7, <1>18, TableHanded
<1>20. Faithful
  BY <1>14, <1>17, <1>19 DEF Faithful
<1> QED
  BY <1>14, <1>15, <1>16, <1>20

LEMMA SpawnInv == ASSUME IInv, NEW p \in Procs, NEW c \in Procs, Spawn(p, c) PROVE IInv'
<1>1. \E tr \in Ofds \cup {None} :
        Child(p, c, tr) /\ (tr \in Ofds => Total(fds, tr) > 0 /\ ofd[tr].open)
  <2>0. fds[p] \in Tables /\ Trace \in Slots /\ None \notin Ofds
    BY Typed, FileTableAssumption DEF IInv, Slots, None, Ofds
  <2>1. CASE \E fd \in Fds : Asked(p, fd) /\ Child(p, c, fds[p][fd])
    <3>1. PICK fd \in Fds : Asked(p, fd) /\ Child(p, c, fds[p][fd])
      BY <2>1
    <3>2. fd \in Slots /\ fds[p][fd] # None /\ ofd[fds[p][fd]].open
      BY <3>1 DEF Asked, Names, Slots
    <3> QED
      BY <3>1, <3>2, NamedLive
  <2>2. CASE Child(p, c, fds[p][Trace])
    <3>1. fds[p][Trace] \in Ofds \cup {None}
      BY <2>0 DEF Tables
    <3>2. Trace \notin StdFds
      BY FileTableAssumption DEF Trace, StdFds
    <3>3. ASSUME fds[p][Trace] \in Ofds
          PROVE  Total(fds, fds[p][Trace]) > 0 /\ ofd[fds[p][Trace]].open
      <4>1. fds[p][Trace] # None
        BY <2>0, <3>3
      <4>2. ofd[fds[p][Trace]].open
        BY <2>0, <3>2, <4>1 DEF IInv, Stale, StdSlot
      <4> QED
        BY <2>0, <4>1, <4>2, NamedLive
    <3> QED
      BY <2>2, <3>1, <3>3
  <2>3. CASE Child(p, c, None)
    BY <2>0, <2>3
  <2> QED
    BY <2>1, <2>2, <2>3 DEF Spawn
<1>2. Fresh(c) /\ Begin(c) /\ UNCHANGED <<state, next, std, services>>
  BY DEF Spawn
<1>3. /\ fds' \in [Procs -> Tables] /\ ofd' \in Map /\ Faithful
      /\ \A o \in Ofds : ofd'[o].kind = ofd[o].kind
      /\ \A q \in Procs \ {c} : fds'[q] = fds[q]
  BY <1>1, <1>2, ChildStep
<1>4. making = None /\ making' = c /\ acts' = 0
  BY <1>2 DEF Fresh, Idle, Begin
<1>5. \A q \in Procs : state'[q] = "none" /\ q # making' => fds'[q] = Empty
  BY <1>2, <1>3, <1>4, FileTableAssumption DEF IInv, Unstarted, None, Kernel
<1>6. follow' \subseteq Procs
  BY DEF Spawn, IInv, TypeOK
<1> QED
  BY <1>2, <1>3, <1>4, <1>5, <1>6, QuietStep, FileTableAssumption DEF IInv, TypeOK

\* The first of them: the standard descriptions are made and each is given one
\* descriptor.
LEMMA SpawnFirstMakes ==
  ASSUME IInv, services = {}, NEW c \in Procs, SpawnFirst(c)
  PROVE  IInv'
<1> DEFINE top == next + MaxStd
           tab == [s \in Slots |-> IF s \in StdFds THEN next + s ELSE None]
<1>1. /\ services' = {c}
      /\ MaxStd \in Nat /\ MaxStd <= MaxFd /\ MaxFd \in Nat /\ MaxOfd \in Nat
  BY FileTableAssumption DEF SpawnFirst
<1>2. 0 \in StdFds /\ \A s \in StdFds : std[s] = None /\ StdOf(s) = next + s
  BY <1>1 DEF IInv, StdOnce, StdOf, StdFds
<1>3. ~StdReady
  BY <1>2 DEF StdReady
<1>4. /\ top \in Ofds /\ next' = top + 1 /\ next \in Nat /\ next >= 1
      /\ \A s \in StdFds : next + s \in Ofds
  BY <1>1, <1>3 DEF SpawnFirst, IInv, TypeOK, Ofds, StdFds
<1>5. TableSet(c, tab)
  BY <1>2 DEF SpawnFirst, TableSet
<1>6. tab \in Tables
  BY <1>4 DEF Tables
<1>7. None \notin Ofds /\ StdFds \subseteq Slots
  BY <1>1 DEF None, Ofds, StdFds, Slots, Fds
<1> DEFINE std0 == [Made("std") EXCEPT !.refs = 1]
<1>8. std0 \in Desc /\ Live(std0, 1) /\ std0.kind = "std"
  <2>1. Made("std") \in Desc /\ Live(Made("std"), 0) /\ Made("std").kind = "std"
    BY MadeLive DEF Kinds, PipeEnds
  <2>2. std0 = SetRefs(Made("std"), 1)
    BY DEF SetRefs
  <2>3. /\ SetRefs(Made("std"), 1) \in Desc /\ SetRefs(Made("std"), 1).refs = 1
        /\ SetRefs(Made("std"), 1).kind = Made("std").kind
        /\ SetRefs(Made("std"), 1).open = Made("std").open
        /\ SetRefs(Made("std"), 1).closes = Made("std").closes
    BY <2>1, SetRefsOk
  <2> QED
    BY <2>1, <2>2, <2>3 DEF Live
<1>9. [Made("std") EXCEPT !.refs = @ + 1] = std0
  BY DEF Made, Unmade
<1> HIDE DEF std0
<1>10. ofd' = [o \in Ofds |-> IF \E s \in StdFds : next + s = o THEN std0 ELSE ofd[o]]
  BY <1>2, <1>3, <1>9 DEF SpawnFirst, WithStd
<1>11. ofd' \in Map
  BY <1>8, <1>10, Typed DEF IInv, Map
<1>12. \A o \in Ofds : Total(fds', o) = Total(fds, o) - Count(fds[c], o) + Count(tab, o)
  BY <1>5, <1>6, TableSetTotal
<1>13. \A o \in Ofds : Count(fds[c], o) = 0 /\ Total(fds, o) \in Nat
  BY FreshEmpty, TotalType DEF SpawnFirst
<1>14. ASSUME NEW o \in Ofds
       PROVE  /\ Kept(o)
              /\ (\E s \in StdFds : next + s = o) => /\ Sound(ofd'[o], Total(fds', o))
                                                     /\ ofd'[o].kind = "std"
              /\ ofd[o].kind # "unmade" => ofd'[o].kind = ofd[o].kind
              /\ ofd'[o].kind = "unmade" <=> o >= next'
  <2>1. CASE \E s \in StdFds : next + s = o
    <3>1. PICK s \in StdFds : next + s = o
      BY <2>1
    <3>2. o >= next /\ ~(o >= next')
      BY <1>1, <1>4, <3>1 DEF StdFds
    <3>3. Total(fds, o) = 0 /\ ofd[o].kind = "unmade"
      BY <3>2, NewUnnamed DEF IInv, MadeBelowNext
    <3>4. Named(tab, o) = {s}
      BY <1>4, <1>7, <3>1 DEF Named, StdFds
    <3>5. Count(tab, o) = 1
      BY <3>4, FS_Singleton DEF Count
    <3>6. Total(fds', o) = 1
      BY <1>12, <1>13, <3>3, <3>5
    <3>7. ofd'[o] = std0
      BY <1>10, <2>1
    <3> QED
      BY <1>8, <3>2, <3>3, <3>6, <3>7 DEF Sound, Kept
  <2>2. CASE ~\E s \in StdFds : next + s = o
    <3>1. Named(tab, o) = {}
      BY <1>7, <2>2 DEF Named
    <3>2. Count(tab, o) = 0
      BY <3>1, CountType
    <3>3. Total(fds', o) = Total(fds, o)
      BY <1>12, <1>13, <3>2
    <3>4. ofd'[o] = ofd[o]
      BY <1>10, <2>2
    <3>5. o >= next <=> o >= next'
      <4>1. o \in Nat
        BY DEF Ofds
      <4>2. ~(o >= next /\ o <= top)
        <5>1. o >= next /\ o <= top => o - next \in StdFds /\ next + (o - next) = o
          BY <1>1, <1>4, <4>1 DEF StdFds
        <5> QED
          BY <2>2, <5>1
      <4> QED
        BY <1>1, <1>4, <4>1, <4>2
    <3>6. Sound(ofd[o], Due[o]) /\ Due[o] = IF ofd[o].open THEN Total(fds, o) ELSE 0
      BY DueType
    <3>7. Kept(o)
      BY <3>3, <3>4, <3>6 DEF Kept, Sound
    <3> QED
      BY <2>2, <3>4, <3>5, <3>7 DEF IInv, MadeBelowNext
  <2> QED
    BY <2>1, <2>2
<1>15. making = None /\ making' = c /\ acts' = 0 /\ UNCHANGED <<state, follow>>
  BY DEF SpawnFirst, Fresh, Idle, Begin
<1>16. \A q \in Procs : state'[q] = "none" /\ q # making' => fds'[q] = Empty
  BY <1>5, <1>15, Typed, FileTableAssumption DEF IInv, Unstarted, None, Kernel, TableSet
<1>17. fds' \in [Procs -> Tables]
  BY <1>5, <1>6, TableSetType
<1>18. std' \in [StdFds -> Ofds \cup {None}]
  BY <1>2, <1>4 DEF SpawnFirst
<1>19. next' \in 1..(MaxOfd + 1)
  BY <1>1, <1>4 DEF Ofds
<1>20. \A t \in Slots : tab[t] \in {None, fds[c][t]} \/ Sound(ofd'[tab[t]], Total(fds', tab[t]))
  BY <1>4, <1>14
<1> HIDE DEF tab
<1>21. \A q \in Procs, t \in Slots : Handed(q, t)
  BY <1>5, <1>6, <1>20, TableHanded
<1>22. Faithful
  BY <1>14, <1>21 DEF Faithful
<1>23. \A s \in StdFds : std'[s] = next + s
  BY <1>2 DEF SpawnFirst
<1>24. StdOnce' /\ StdMade'
  <2>1. ASSUME NEW s \in StdFds
        PROVE  std'[s] \in Ofds /\ std'[s] = std'[0] + s /\ ofd'[std'[s]].kind = "std"
    <3>1. std'[s] = next + s /\ std'[0] = next + 0 /\ next + s \in Ofds
      BY <1>2, <1>4, <1>23
    <3>2. std'[s] = std'[0] + s
      BY <1>4, <3>1
    <3> QED
      BY <1>14, <3>1, <3>2
  <2> QED
    BY <1>1, <2>1 DEF StdOnce, StdMade
<1>25. /\ services \subseteq services' /\ services' \subseteq Procs
       /\ \A s \in StdFds : std[s] # None => std'[s] = std[s]
  BY <1>1, <1>2
<1>26. /\ state' \in [Procs -> {"none", "live", "dead", "lost"}] /\ follow' \subseteq Procs
       /\ making' \in Procs \cup {None} /\ acts' \in 0..MaxActions
  BY <1>15, FileTableAssumption DEF IInv, TypeOK
<1> QED
  BY <1>11, <1>14, <1>16, <1>17, <1>18, <1>19, <1>22, <1>24, <1>25, <1>26, StepInv

\* A later one: each cached description, released or not, gets one more
\* descriptor.
LEMMA SpawnFirstReuses ==
  ASSUME IInv, services # {}, NEW c \in Procs, SpawnFirst(c)
  PROVE  IInv'
<1> DEFINE tab == [s \in Slots |-> IF s \in StdFds THEN std[s] ELSE None]
<1>1. /\ MaxStd \in Nat /\ MaxStd <= MaxFd /\ MaxFd \in Nat /\ MaxOfd \in Nat
      /\ None \notin Ofds
  BY FileTableAssumption DEF None, Ofds
<1>2. 0 \in StdFds /\ StdFds \subseteq Slots
  BY <1>1 DEF StdFds, Slots, Fds
<1>3. \A s \in StdFds : std[s] \in Ofds /\ std[s] = std[0] + s /\ ofd[std[s]].kind = "std"
  BY DEF IInv, StdMade
<1>4. StdReady /\ \A s \in StdFds : StdOf(s) = std[s]
  BY <1>1, <1>3 DEF StdReady, StdOf
<1>5. /\ services' = services \cup {c} /\ next' = next /\ Fresh(c) /\ Begin(c)
      /\ UNCHANGED <<state, follow>>
      /\ \A s \in StdFds : std'[s] = std[s]
      /\ std' \in [StdFds -> Ofds \cup {None}]
  BY <1>3, <1>4 DEF SpawnFirst
<1>6. TableSet(c, tab) /\ tab \in Tables
  BY <1>3, <1>4 DEF SpawnFirst, TableSet, Tables
<1>7. ofd' = [o \in Ofds |-> IF \E s \in StdFds : std[s] = o
                             THEN [ofd[o] EXCEPT !.refs = @ + 1] ELSE ofd[o]]
  BY <1>4 DEF SpawnFirst, WithStd
<1>8. \A o \in Ofds : ofd[o] \in Desc
  BY Typed DEF IInv, Map
<1>9. ASSUME NEW o \in Ofds
      PROVE  LET d == SetRefs(ofd[o], ofd[o].refs + 1)
             IN  /\ d \in Desc /\ d.refs = ofd[o].refs + 1 /\ d.kind = ofd[o].kind
                 /\ d.open = ofd[o].open /\ d.closes = ofd[o].closes
  <2>1. ofd[o].refs + 1 \in Nat
    BY <1>8 DEF Desc
  <2> QED
    BY <1>8, <2>1, SetRefsOk
<1>10. \A o \in Ofds : ofd'[o] = IF \E s \in StdFds : std[s] = o
                                  THEN SetRefs(ofd[o], ofd[o].refs + 1) ELSE ofd[o]
  BY <1>7 DEF SetRefs
<1>11. ofd' \in Map
  <2>1. \A o \in Ofds : ofd'[o] \in Desc
    BY <1>8, <1>9, <1>10
  <2>2. DOMAIN ofd' = Ofds /\ ofd' = [o \in Ofds |-> ofd'[o]]
    BY <1>7
  <2> QED
    BY <2>1, <2>2 DEF Map
<1>12. \A o \in Ofds : Total(fds', o) = Total(fds, o) - Count(fds[c], o) + Count(tab, o)
  BY <1>6, TableSetTotal
<1>13. \A o \in Ofds : Count(fds[c], o) = 0 /\ Total(fds, o) \in Nat
  BY <1>5, FreshEmpty, TotalType
<1>14. ASSUME NEW o \in Ofds PROVE Kept(o) /\ ofd'[o].kind = ofd[o].kind
  <2>1. /\ Sound(ofd[o], Due[o]) /\ Due[o] = IF ofd[o].open THEN Total(fds, o) ELSE 0
        /\ ~ofd[o].open => Gone(ofd[o])
    BY DueType
  <2>2. CASE \E s \in StdFds : std[s] = o
    <3>1. PICK s \in StdFds : std[s] = o
      BY <2>2
    <3>2. Named(tab, o) = {s}
      <4>1. \A r \in StdFds : std[r] = o => r = s
        <5> SUFFICES ASSUME NEW r \in StdFds, std[r] = o PROVE r = s
          OBVIOUS
        <5>1. std[0] + r = std[0] + s /\ std[0] \in Ofds
          BY <1>2, <1>3, <3>1
        <5>2. r \in Int /\ s \in Int /\ std[0] \in Int
          BY <1>1, <5>1 DEF StdFds, Ofds
        <5> QED
          BY <5>1, <5>2
      <4> QED
        BY <1>1, <1>2, <3>1, <4>1 DEF Named
    <3>3. Count(tab, o) = 1
      BY <3>2, FS_Singleton DEF Count
    <3>4. Total(fds', o) = Total(fds, o) + 1
      BY <1>12, <1>13, <3>3
    <3> DEFINE d == SetRefs(ofd[o], ofd[o].refs + 1)
    <3>5. /\ ofd'[o] = d /\ d.refs = ofd[o].refs + 1 /\ d.kind = ofd[o].kind
          /\ d.open = ofd[o].open /\ d.closes = ofd[o].closes
      BY <1>9, <1>10, <2>2
    <3> HIDE DEF d
    <3>6. CASE ofd[o].open
      <4>1. Live(ofd[o], Total(fds, o))
        BY <1>13, <2>1, <3>6 DEF Sound, Gone
      <4>2. Live(d, Total(fds', o)) /\ Total(fds', o) > 0
        BY <1>13, <3>4, <3>5, <4>1 DEF Live
      <4> QED
        BY <3>5, <4>2 DEF Kept, Sound
    <3>7. CASE ~ofd[o].open
      <4>1. Gone(ofd[o])
        BY <2>1, <3>7
      <4>2. Gone(d)
        BY <3>5, <4>1 DEF Gone
      <4> QED
        BY <3>5, <3>7, <4>2 DEF Kept
    <3> QED
      BY <3>6, <3>7
  <2>3. CASE ~\E s \in StdFds : std[s] = o
    <3>1. Named(tab, o) = {}
      BY <1>1, <2>3 DEF Named
    <3>2. Count(tab, o) = 0
      BY <3>1, CountType
    <3>3. Total(fds', o) = Total(fds, o) /\ ofd'[o] = ofd[o]
      BY <1>10, <1>12, <1>13, <2>3, <3>2
    <3> QED
      BY <2>1, <3>3 DEF Kept, Sound
  <2> QED
    BY <2>2, <2>3
<1>15. ASSUME NEW q \in Procs, NEW t \in Slots PROVE Handed(q, t)
  <2>1. fds \in [Procs -> Tables]
    BY Typed DEF IInv
  <2>2. fds'[q] = IF q = c THEN tab ELSE fds[q]
    BY <1>6, <2>1 DEF TableSet
  <2>3. CASE q = c /\ t \in StdFds
    BY <1>5, <2>2, <2>3 DEF Handed
  <2>4. CASE q = c /\ t \notin StdFds
    BY <2>2, <2>4 DEF Handed
  <2>5. CASE q # c
    BY <2>2, <2>5 DEF Handed
  <2> QED
    BY <2>3, <2>4, <2>5
<1> HIDE DEF tab
<1>16. Faithful
  BY <1>14, <1>15 DEF Faithful
<1>17. fds' \in [Procs -> Tables]
  BY <1>6, TableSetType
<1>18. making = None /\ making' = c /\ acts' = 0
  BY <1>5 DEF Fresh, Idle, Begin
<1>19. \A q \in Procs : state'[q] = "none" /\ q # making' => fds'[q] = Empty
  BY <1>5, <1>6, <1>18, Typed, FileTableAssumption DEF IInv, Unstarted, None, Kernel, TableSet
<1>20. StdOnce' /\ StdMade'
  <2>1. services' # {}
    BY <1>5
  <2>2. \A s \in StdFds : ofd'[std[s]].kind = "std"
    BY <1>3, <1>14
  <2> QED
    BY <1>2, <1>3, <1>5, <2>1, <2>2 DEF StdOnce, StdMade
<1>21. /\ services \subseteq services' /\ services' \subseteq Procs
       /\ \A s \in StdFds : std[s] # None => std'[s] = std[s]
  BY <1>5 DEF IInv, TypeOK
<1>22. /\ state' \in [Procs -> {"none", "live", "dead", "lost"}] /\ follow' \subseteq Procs
       /\ making' \in Procs \cup {None} /\ acts' \in 0..MaxActions
       /\ next' \in 1..(MaxOfd + 1)
  BY <1>5, <1>18, FileTableAssumption DEF IInv, TypeOK
<1>23. \A o \in Ofds : ofd'[o].kind = "unmade" <=> o >= next'
  BY <1>5, <1>14 DEF IInv, MadeBelowNext
<1> QED
  BY <1>5, <1>11, <1>16, <1>17, <1>19, <1>20, <1>21, <1>22, <1>23, StepInv

LEMMA NextInv == IInv /\ [Next]_vars => IInv'
<1> SUFFICES ASSUME IInv, [Next]_vars PROVE IInv'
  OBVIOUS
<1>1. CASE \E p \in Procs : Call(p)
  BY <1>1, OpenInv, PipeInv, CloseInv, DupInv, ExitInv DEF Call
<1>2. CASE \E c \in Procs : Making(c)
  <2>1. PICK c \in Procs : Making(c)
    BY <1>2
  <2>2. CASE SpawnFirst(c)
    BY <2>2, SpawnFirstMakes, SpawnFirstReuses
  <2>3. CASE \E p \in Procs : Spawn(p, c) \/ SpawnRefused(p, c)
    BY <2>3, SpawnInv, SpawnRefusedInv
  <2> QED
    BY <2>1, <2>2, <2>3 DEF Making
<1>3. CASE Loop
  BY <1>3, ActDup2Inv, ActOpenInv, ActCloseInv, ActCloseFromInv, ActFailInv, StartInv,
     WorkerThrewInv DEF Loop
<1>4. CASE UNCHANGED vars
  BY <1>4, StillInv DEF vars, IInv, TypeOK, Unstarted
<1> QED
  BY <1>1, <1>2, <1>3, <1>4 DEF Next

----------------------------------------------------------------------------
(* Holder maps                                                              *)
(*                                                                          *)
(* A pipe end also counts its references by holder.  An action moves these  *)
(* counts by what it does to one table: q gains or loses n.                 *)

\* How many processes are traced into o, and what h holds of o in tables F.
Traces(F, o) == Cardinality({q \in Procs : F[q][Trace] = o})
Has(F, h, o) == IF h = Kernel THEN Traces(F, o) ELSE Uses(F[h], o)

\* Only the counts of a pipe end that is open matter.
Tracked(x) == x.open /\ x.kind \in PipeEnds

PipeCounts ==
    \A o \in Ofds : Tracked(ofd[o]) => \A h \in Holders : ofd[o].by[h] = Has(fds, h, o)

\* Between the calls of one handler a count of references may be anything.
Draft == [kind : Kinds, refs : Int, by : [Holders -> Nat], open : BOOLEAN, closes : Nat]
Drafts == [Ofds -> Draft]

Moves(x, y, q, n) ==
    Tracked(y) => /\ Tracked(x) /\ y.kind = x.kind
                  /\ \A h \in Holders : y.by[h] = x.by[h] + (IF h = q THEN n ELSE 0)

LEMMA DraftFields ==
  ASSUME NEW x \in Draft, NEW r \in Int, NEW b \in [Holders -> Nat]
  PROVE  LET y == SetBy(SetRefs(x, r), b)
         IN  y \in Draft /\ y.kind = x.kind /\ y.open = x.open /\ y.by = b
<1> DEFINE e == SetRefs(x, r)
<1>1. e \in Draft /\ e.kind = x.kind /\ e.open = x.open
  BY DEF SetRefs, Draft
<1> HIDE DEF e
<1>2. SetBy(e, b) \in Draft /\ SetBy(e, b).by = b
      /\ SetBy(e, b).kind = e.kind /\ SetBy(e, b).open = e.open
  BY <1>1 DEF SetBy, Draft
<1> QED
  BY <1>1, <1>2 DEF e

LEMMA SettledFields ==
  ASSUME NEW y \in Draft
  PROVE  LET z == Settled(y)
         IN  z \in Draft /\ z.kind = y.kind /\ z.by = y.by /\ (z.open => y.open)
<1> DEFINE e == SetOpen(y, FALSE)
           f == SetCloses(e, y.closes + 1)
<1>1. e \in Draft /\ e.kind = y.kind /\ e.by = y.by /\ ~e.open /\ e.closes = y.closes
  BY DEF SetOpen, Draft
<1>2. y.closes + 1 \in Nat
  BY DEF Draft
<1>3. Settled(y) = IF y.refs > 0 THEN y ELSE f
  BY DEF Settled, SetOpen, SetCloses
<1> HIDE DEF e
<1>4. f \in Draft /\ f.kind = e.kind /\ f.by = e.by /\ f.open = e.open
  BY <1>1, <1>2 DEF SetCloses, Draft
<1> HIDE DEF f
<1> QED
  BY <1>1, <1>3, <1>4

LEMMA MoreMoves ==
  ASSUME NEW x \in Draft, NEW q \in Holders, NEW n \in Nat
  PROVE  More(x, q, n) \in Draft /\ Moves(x, More(x, q, n), q, n)
<1> DEFINE b == Held(x, q, n)
           y == More(x, q, n)
<1>1. x.by \in [Holders -> Nat] /\ x.refs \in Int
  BY DEF Draft
<1>2. b \in [Holders -> Nat]
  BY <1>1 DEF Held
<1>3. x.kind \in PipeEnds => \A h \in Holders : b[h] = x.by[h] + (IF h = q THEN n ELSE 0)
  BY <1>1 DEF Held
<1>4. y = SetBy(SetRefs(x, x.refs + n), b) /\ x.refs + n \in Int
  BY <1>1 DEF More, SetBy, SetRefs
<1> HIDE DEF b, y
<1>5. y \in Draft /\ y.kind = x.kind /\ y.open = x.open /\ y.by = b
  BY <1>1, <1>2, <1>4, DraftFields
<1>6. Moves(x, y, q, n)
  BY <1>3, <1>5 DEF Moves, Tracked
<1> QED
  BY <1>5, <1>6 DEF y

LEMMA LessMoves ==
  ASSUME NEW x \in Draft, NEW q \in Holders, NEW n \in Nat
  PROVE  /\ Settled(Less(x, q, n)) \in Draft
         /\ (Tracked(x) => x.by[q] >= n) => Moves(x, Settled(Less(x, q, n)), q, 0 - n)
<1> DEFINE b == Dropped(x, q, n)
           y == Less(x, q, n)
           z == Settled(y)
<1>1. x.by \in [Holders -> Nat] /\ x.refs \in Int
  BY DEF Draft
<1>2. b \in [Holders -> Nat]
  BY <1>1 DEF Dropped
<1>3. x.kind \in PipeEnds /\ x.by[q] >= n
        => \A h \in Holders : b[h] = x.by[h] + (IF h = q THEN 0 - n ELSE 0)
  <2> SUFFICES ASSUME x.kind \in PipeEnds, x.by[q] >= n, NEW h \in Holders
               PROVE  b[h] = x.by[h] + (IF h = q THEN 0 - n ELSE 0)
    OBVIOUS
  <2>1. b = [x.by EXCEPT ![q] = IF @ > n THEN @ - n ELSE 0]
    BY DEF Dropped
  <2>2. x.by[q] \in Nat /\ x.by[h] \in Nat
    BY <1>1
  <2>3. CASE h = q
    BY <1>1, <2>1, <2>2, <2>3
  <2>4. CASE h # q
    BY <1>1, <2>1, <2>2, <2>4
  <2> QED
    BY <2>3, <2>4
<1>4. y = SetBy(SetRefs(x, x.refs - n), b) /\ x.refs - n \in Int
  BY <1>1 DEF Less, SetBy, SetRefs
<1> HIDE DEF b, y
<1>5. y \in Draft /\ y.kind = x.kind /\ y.open = x.open /\ y.by = b
  BY <1>1, <1>2, <1>4, DraftFields
<1>6. z \in Draft /\ z.kind = y.kind /\ z.by = y.by /\ (z.open => y.open)
  BY <1>5, SettledFields
<1> HIDE DEF z
<1>7. (Tracked(x) => x.by[q] >= n) => Moves(x, z, q, 0 - n)
  BY <1>3, <1>5, <1>6 DEF Moves, Tracked
<1> QED
  BY <1>6, <1>7 DEF y, z

LEMMA StaysPut == ASSUME NEW x \in Draft, NEW q \in Holders PROVE Moves(x, x, q, 0)
  BY DEF Moves, Draft

LEMMA RefMoves ==
  ASSUME NEW d \in Drafts, NEW o \in Ofds, NEW q \in Holders
  PROVE  /\ Ref(d, o, q) \in Drafts
         /\ \A x \in Ofds : Moves(d[x], Ref(d, o, q)[x], q, At(o, x))
<1>1. More(d[o], q, 1) \in Draft /\ Moves(d[o], More(d[o], q, 1), q, 1)
  BY MoreMoves DEF Drafts
<1>2. \A x \in Ofds : Ref(d, o, q)[x] = IF x = o THEN More(d[o], q, 1) ELSE d[x]
  BY DEF Ref, Drafts
<1>3. Ref(d, o, q) \in Drafts
  BY <1>1 DEF Ref, Drafts
<1>4. \A x \in Ofds : d[x] \in Draft
  BY DEF Drafts
<1> QED
  BY <1>1, <1>2, <1>3, <1>4, StaysPut DEF At

LEMMA UnrefMoves ==
  ASSUME NEW d \in Drafts, NEW o \in Ofds \cup {None}, NEW q \in Holders
  PROVE  /\ Unref(d, o, q) \in Drafts
         /\ (o \in Ofds /\ Tracked(d[o]) => d[o].by[q] >= 1)
              => \A x \in Ofds : Moves(d[x], Unref(d, o, q)[x], q, 0 - At(o, x))
<1>0. None \notin Ofds /\ \A x \in Ofds : d[x] \in Draft
  BY FileTableAssumption DEF None, Ofds, Drafts
<1>1. CASE o = None \/ ~d[o].open
  <2>1. Unref(d, o, q) = d
    BY <1>1 DEF Unref
  <2>2. ASSUME NEW x \in Ofds PROVE Moves(d[x], d[x], q, 0 - At(o, x))
    <3>1. CASE o = x
      BY <1>0, <1>1, <3>1 DEF Moves, Tracked
    <3>2. CASE o # x
      <4>1. At(o, x) = 0
        BY <3>2 DEF At
      <4>2. 0 - At(o, x) = 0
        BY <4>1
      <4> QED
        BY <1>0, <4>2, StaysPut
    <3> QED
      BY <3>1, <3>2
  <2> QED
    BY <2>1, <2>2
<1>2. CASE o \in Ofds /\ d[o].open
  <2>1. Unref(d, o, q) = [d EXCEPT ![o] = Settled(Less(d[o], q, 1))]
    BY <1>0, <1>2 DEF Unref, Drafts
  <2>2. /\ Settled(Less(d[o], q, 1)) \in Draft
        /\ (Tracked(d[o]) => d[o].by[q] >= 1) => Moves(d[o], Settled(Less(d[o], q, 1)), q, 0 - 1)
    BY <1>0, <1>2, LessMoves
  <2>3. Unref(d, o, q) \in Drafts
    BY <1>2, <2>1, <2>2 DEF Drafts
  <2>4. \A x \in Ofds : Unref(d, o, q)[x] = IF x = o THEN Settled(Less(d[o], q, 1)) ELSE d[x]
    BY <1>2, <2>1 DEF Drafts
  <2>5. ASSUME Tracked(d[o]) => d[o].by[q] >= 1, NEW x \in Ofds
        PROVE  Moves(d[x], Unref(d, o, q)[x], q, 0 - At(o, x))
    <3>1. CASE o = x
      <4>1. At(o, x) = 1
        BY <3>1 DEF At
      <4> QED
        BY <1>2, <2>2, <2>4, <2>5, <3>1, <4>1
    <3>2. CASE o # x
      <4>1. At(o, x) = 0
        BY <3>2 DEF At
      <4>2. 0 - At(o, x) = 0
        BY <4>1
      <4> QED
        BY <1>0, <2>4, <3>2, <4>2, StaysPut
    <3> QED
      BY <3>1, <3>2
  <2> QED
    BY <1>2, <2>3, <2>5
<1> QED
  BY <1>0, <1>1, <1>2

LEMMA RefAllMoves ==
  ASSUME NEW d \in Drafts, NEW tab \in Tables, NEW q \in Holders
  PROVE  /\ RefAll(d, tab, q) \in Drafts
         /\ \A x \in Ofds : Moves(d[x], RefAll(d, tab, q)[x], q, Uses(tab, x))
<1> SUFFICES ASSUME NEW x \in Ofds
             PROVE  /\ RefAll(d, tab, q)[x] \in Draft
                    /\ Moves(d[x], RefAll(d, tab, q)[x], q, Uses(tab, x))
  BY DEF RefAll, Drafts
<1>1. Uses(tab, x) \in Nat /\ d[x] \in Draft
  BY UsesAndTrace DEF Drafts
<1>2. CASE ~d[x].open
  BY <1>1, <1>2 DEF RefAll, Moves, Tracked
<1>3. CASE Uses(tab, x) = 0
  BY <1>1, <1>3, StaysPut DEF RefAll
<1>4. CASE Uses(tab, x) # 0 /\ d[x].open
  BY <1>1, <1>4, MoreMoves DEF RefAll
<1> QED
  BY <1>2, <1>3, <1>4

LEMMA UnrefAllMoves ==
  ASSUME NEW d \in Drafts, NEW tab \in Tables, NEW q \in Holders
  PROVE  /\ UnrefAll(d, tab, q) \in Drafts
         /\ (\A x \in Ofds : Tracked(d[x]) => d[x].by[q] >= Uses(tab, x))
              => \A x \in Ofds : Moves(d[x], UnrefAll(d, tab, q)[x], q, 0 - Uses(tab, x))
<1> SUFFICES ASSUME NEW x \in Ofds
             PROVE  /\ UnrefAll(d, tab, q)[x] \in Draft
                    /\ (Tracked(d[x]) => d[x].by[q] >= Uses(tab, x))
                         => Moves(d[x], UnrefAll(d, tab, q)[x], q, 0 - Uses(tab, x))
  BY DEF UnrefAll, Drafts
<1>1. Uses(tab, x) \in Nat /\ d[x] \in Draft
  BY UsesAndTrace DEF Drafts
<1>2. CASE ~d[x].open
  BY <1>1, <1>2 DEF UnrefAll, Moves, Tracked
<1>3. CASE Uses(tab, x) = 0
  <2>1. 0 - Uses(tab, x) = 0
    BY <1>3
  <2> QED
    BY <1>1, <1>3, <2>1, StaysPut DEF UnrefAll
<1>4. CASE Uses(tab, x) # 0 /\ d[x].open
  BY <1>1, <1>4, LessMoves DEF UnrefAll
<1> QED
  BY <1>2, <1>3, <1>4

----------------------------------------------------------------------------
(* The tables' side                                                         *)

LEMMA HasType ==
  ASSUME NEW F \in [Procs -> Tables], NEW o \in Ofds
  PROVE  \A h \in Holders : Has(F, h, o) \in Nat
<1>1. IsFiniteSet({q \in Procs : F[q][Trace] = o})
  BY FileTableAssumption, FS_Subset
<1>2. Traces(F, o) \in Nat
  BY <1>1, FS_CardinalityType DEF Traces
<1>3. \A q \in Procs : Uses(F[q], o) \in Nat
  BY UsesAndTrace
<1> QED
  BY <1>2, <1>3 DEF Has, Holders

LEMMA TracesChange ==
  ASSUME NEW F, NEW G, NEW p \in Procs, NEW o \in Ofds, \A q \in Procs : q # p => G[q] = F[q]
  PROVE  Traces(G, o) = Traces(F, o) - At(F[p][Trace], o) + At(G[p][Trace], o)
<1> DEFINE A == {q \in Procs : F[q][Trace] = o}
           B == {q \in Procs : G[q][Trace] = o}
           R == A \ {p}
<1>1. IsFiniteSet(A) /\ Cardinality(A) \in Nat
  BY FileTableAssumption, FS_Subset, FS_CardinalityType
<1>2. (p \in A <=> F[p][Trace] = o) /\ (p \in B <=> G[p][Trace] = o) /\ R = B \ {p}
  OBVIOUS
<1>3. B = R \cup (IF p \in B THEN {p} ELSE {}) /\ p \notin R
  BY <1>2
<1>4. Traces(F, o) = Cardinality(A) /\ Traces(G, o) = Cardinality(B)
  BY DEF Traces
<1> HIDE DEF A, B
<1>5. IsFiniteSet(R) /\ Cardinality(R) = Cardinality(A) - At(F[p][Trace], o)
  BY <1>1, <1>2, FS_RemoveElement DEF At
<1>6. Cardinality(R) \in Nat
  BY <1>5, FS_CardinalityType
<1> HIDE DEF R
<1>7. Cardinality(B) = Cardinality(R) + At(G[p][Trace], o)
  <2>1. CASE p \in B
    <3>1. B = R \cup {p} /\ At(G[p][Trace], o) = 1
      BY <1>2, <1>3, <2>1 DEF At
    <3> QED
      BY <1>3, <1>5, <3>1, FS_AddElement
  <2>2. CASE p \notin B
    <3>1. B = R /\ At(G[p][Trace], o) = 0
      BY <1>2, <1>3, <2>2 DEF At
    <3> QED
      BY <1>6, <3>1
  <2> QED
    BY <2>1, <2>2
<1>8. At(F[p][Trace], o) \in {0, 1} /\ At(G[p][Trace], o) \in {0, 1}
  BY DEF At
<1> QED
  BY <1>1, <1>4, <1>5, <1>7, <1>8

\* What a new table of p changes in what h holds of o.
Shift(F, p, tab, h, o) ==
    (IF h = p THEN Uses(tab, o) - Uses(F[p], o) ELSE 0)
        + (IF h = Kernel THEN At(tab[Trace], o) - At(F[p][Trace], o) ELSE 0)

(* A step that gives p another table keeps the holder counts when it moves  *)
(* those of every open pipe end by what the tables say.                     *)
LEMMA TableHolders ==
  ASSUME IInv, NEW p \in Procs, NEW tab \in Tables, TableSet(p, tab),
         \A o \in Ofds : Tracked(ofd'[o]) =>
             \A h \in Holders : ofd'[o].by[h] = Has(fds, h, o) + Shift(fds, p, tab, h, o)
  PROVE  PipeCounts'
<1>1. fds \in [Procs -> Tables] /\ fds' = [fds EXCEPT ![p] = tab]
  BY Typed DEF IInv, TableSet
<1>2. \A q \in Procs : q # p => fds'[q] = fds[q]
  BY <1>1
<1>3. fds'[p] = tab /\ p # Kernel
  BY <1>1, FileTableAssumption
<1> SUFFICES ASSUME NEW o \in Ofds, Tracked(ofd'[o]), NEW h \in Holders
             PROVE  ofd'[o].by[h] = Has(fds', h, o)
  BY DEF PipeCounts, Tracked, Has, Traces, Uses
<1>4. ofd'[o].by[h] = Has(fds, h, o) + Shift(fds, p, tab, h, o)
  OBVIOUS
<1>5. Has(fds, h, o) \in Nat /\ Uses(tab, o) \in Nat
  BY <1>1, HasType, UsesAndTrace
<1>6. CASE h = Kernel
  <2>1. Traces(fds', o) = Traces(fds, o) - At(fds[p][Trace], o) + At(fds'[p][Trace], o)
    BY <1>2, TracesChange
  <2>2. Has(fds, h, o) = Traces(fds, o) /\ Has(fds', h, o) = Traces(fds', o)
    BY <1>6 DEF Has
  <2>3. Shift(fds, p, tab, h, o) = At(tab[Trace], o) - At(fds[p][Trace], o)
    BY <1>3, <1>6 DEF Shift, At
  <2>4. At(tab[Trace], o) \in {0, 1} /\ At(fds[p][Trace], o) \in {0, 1}
    BY DEF At
  <2> QED
    BY <1>3, <1>4, <1>5, <2>1, <2>2, <2>3, <2>4
<1>7. CASE h = p
  <2>1. Has(fds, h, o) = Uses(fds[p], o) /\ Has(fds', h, o) = Uses(tab, o)
    BY <1>3, <1>7 DEF Has
  <2>2. Shift(fds, p, tab, h, o) = Uses(tab, o) - Uses(fds[p], o)
    BY <1>1, <1>3, <1>5, <1>7, <2>1 DEF Shift
  <2> QED
    BY <1>4, <1>5, <2>1, <2>2
<1>8. CASE h # p /\ h # Kernel
  <2>1. Has(fds', h, o) = Has(fds, h, o)
    BY <1>2, <1>8 DEF Has, Holders
  <2>2. Shift(fds, p, tab, h, o) = 0
    BY <1>8 DEF Shift
  <2> QED
    BY <1>4, <1>5, <2>1, <2>2
<1> QED
  BY <1>6, <1>7, <1>8

LEMMA SlotUses ==
  ASSUME NEW tab \in Tables, NEW s \in Fds, NEW v \in Ofds \cup {None}, NEW o \in Ofds
  PROVE  /\ Uses([tab EXCEPT ![s] = v], o) = Uses(tab, o) - At(tab[s], o) + At(v, o)
         /\ [tab EXCEPT ![s] = v][Trace] = tab[Trace]
         /\ tab[s] = o => Uses(tab, o) >= 1
<1> DEFINE new == [tab EXCEPT ![s] = v]
<1>1. s \in Slots /\ Trace \in Slots /\ s # Trace
  BY FileTableAssumption DEF Slots, Fds, Trace
<1>2. new \in Tables /\ new[Trace] = tab[Trace]
  BY <1>1 DEF Tables
<1>3. Count(new, o) = Count(tab, o) - At(tab[s], o) + At(v, o)
  BY <1>1, SlotChange
<1> HIDE DEF new
<1>4. /\ Uses(tab, o) \in Nat /\ Count(tab, o) = Uses(tab, o) + At(tab[Trace], o)
      /\ Uses(new, o) \in Nat /\ Count(new, o) = Uses(new, o) + At(new[Trace], o)
  BY <1>2, UsesAndTrace
<1>5. /\ At(tab[s], o) \in {0, 1} /\ At(v, o) \in {0, 1} /\ At(tab[Trace], o) \in {0, 1}
  BY DEF At
<1>6. Uses(new, o) = Uses(tab, o) - At(tab[s], o) + At(v, o)
  BY <1>2, <1>3, <1>4, <1>5
<1>7. tab[s] = o => Uses(tab, o) >= 1
  <2> SUFFICES ASSUME tab[s] = o PROVE Uses(tab, o) >= 1
    OBVIOUS
  <2>1. s \in {x \in Fds : tab[x] = o}
    OBVIOUS
  <2>2. IsFiniteSet({x \in Fds : tab[x] = o})
    <3>1. IsFiniteSet(Fds)
      BY FS_Interval, FileTableAssumption DEF Fds
    <3> QED
      BY <3>1, FS_Subset
  <2>3. Cardinality({x \in Fds : tab[x] = o}) # 0
    BY <2>1, <2>2, FS_EmptySet
  <2> QED
    BY <1>4, <2>3 DEF Uses
<1> QED
  BY <1>2, <1>6, <1>7 DEF new

\* An open pipe end's holder counts, read from the tables.
LEMMA Counts ==
  ASSUME IInv, PipeCounts
  PROVE  /\ ofd \in Drafts /\ fds \in [Procs -> Tables]
         /\ \A o \in Ofds : ofd[o] \in Draft
         /\ \A o \in Ofds, h \in Holders : Tracked(ofd[o]) =>
                ofd[o].by[h] = Has(fds, h, o) /\ ofd[o].by[h] \in Nat
         /\ \A o \in Ofds, p \in Procs : Has(fds, p, o) = Uses(fds[p], o)
         /\ Kernel \in Holders
<1>1. ofd \in Map /\ fds \in [Procs -> Tables] /\ Map \subseteq Drafts
  BY Typed DEF IInv, Map, Drafts, Desc, Draft
<1>2. ofd \in Drafts
  BY <1>1
<1>3. \A o \in Ofds : ofd[o] \in Draft
  BY <1>2 DEF Drafts
<1>4. \A o \in Ofds, h \in Holders : ofd[o].by[h] \in Nat
  BY <1>3 DEF Draft
<1>5. \A p \in Procs : p # Kernel
  BY FileTableAssumption
<1> QED
  BY <1>1, <1>2, <1>3, <1>4, <1>5 DEF PipeCounts, Has, Holders

LEMMA CountsOf ==
  ASSUME IInv, PipeCounts, NEW p \in Procs
  PROVE  /\ ofd \in Drafts /\ fds \in [Procs -> Tables] /\ \A o \in Ofds : ofd[o] \in Draft
         /\ fds[p] \in Tables /\ fds[p][Trace] \in Ofds \cup {None}
         /\ \A o \in Ofds : Tracked(ofd[o]) =>
               /\ \A h \in Holders : ofd[o].by[h] = Has(fds, h, o) /\ ofd[o].by[h] \in Nat
               /\ ofd[o].by[p] = Uses(fds[p], o) /\ ofd[o].by[Kernel] = Traces(fds, o)
         /\ \A o \in Ofds : Has(fds, p, o) = Uses(fds[p], o) /\ Uses(fds[p], o) \in Nat
         /\ p \in Holders /\ Kernel \in Holders /\ p # Kernel
<1>1. /\ ofd \in Drafts /\ fds \in [Procs -> Tables] /\ \A o \in Ofds : ofd[o] \in Draft
      /\ p \in Holders /\ Kernel \in Holders /\ p # Kernel
  BY Counts, FileTableAssumption DEF Holders
<1>2. fds[p] \in Tables /\ Trace \in Slots
  BY <1>1 DEF Slots
<1>3. fds[p][Trace] \in Ofds \cup {None}
  BY <1>2 DEF Tables
<1>4. \A o \in Ofds : /\ Has(fds, p, o) = Uses(fds[p], o) /\ Uses(fds[p], o) \in Nat
                      /\ Has(fds, Kernel, o) = Traces(fds, o)
  BY <1>1, <1>2, UsesAndTrace DEF Has
<1>5. \A o \in Ofds, h \in Holders : Tracked(ofd[o]) =>
        ofd[o].by[h] = Has(fds, h, o) /\ ofd[o].by[h] \in Nat
  BY Counts
<1>6. \A o \in Ofds : Tracked(ofd[o]) =>
        ofd[o].by[p] = Uses(fds[p], o) /\ ofd[o].by[Kernel] = Traces(fds, o)
  BY <1>1, <1>4, <1>5
<1> QED
  BY <1>1, <1>2, <1>3, <1>4, <1>5, <1>6

----------------------------------------------------------------------------
(* Holder maps: steps that rewrite one slot                                 *)

\* What a changed slot shifts.
LEMMA SlotShift ==
  ASSUME IInv, NEW p \in Procs, NEW s \in Fds, NEW v \in Ofds \cup {None}, SlotSet(p, s, v)
  PROVE  LET tab == [fds[p] EXCEPT ![s] = v]
         IN  /\ tab \in Tables /\ TableSet(p, tab)
             /\ \A o \in Ofds, h \in Holders :
                  Shift(fds, p, tab, h, o)
                    = IF h = p THEN At(v, o) - At(fds[p][s], o) ELSE 0
<1> DEFINE tab == [fds[p] EXCEPT ![s] = v]
<1>1. fds \in [Procs -> Tables] /\ s \in Slots
  BY Typed DEF IInv, Slots
<1>2. fds[p] \in Tables
  BY <1>1
<1>3. tab \in Tables /\ TableSet(p, tab)
  BY <1>1, <1>2 DEF Tables, SlotSet, TableSet
<1>4. ASSUME NEW o \in Ofds, NEW h \in Holders
      PROVE  Shift(fds, p, tab, h, o) = IF h = p THEN At(v, o) - At(fds[p][s], o) ELSE 0
  <2>1. /\ Uses(tab, o) = Uses(fds[p], o) - At(fds[p][s], o) + At(v, o)
        /\ tab[Trace] = fds[p][Trace]
    BY <1>2, SlotUses
  <2>2. Uses(fds[p], o) \in Nat /\ Uses(tab, o) \in Nat
    BY <1>2, <1>3, UsesAndTrace
  <2>3. /\ At(tab[Trace], o) \in Int /\ At(fds[p][Trace], o) \in Int
        /\ At(v, o) \in Int /\ At(fds[p][s], o) \in Int
    BY DEF At
  <2>4. At(tab[Trace], o) - At(fds[p][Trace], o) = 0
    BY <2>1, <2>3
  <2> HIDE DEF tab
  <2>5. Shift(fds, p, tab, h, o) = IF h = p THEN Uses(tab, o) - Uses(fds[p], o) ELSE 0
    BY <2>2, <2>4 DEF Shift
  <2>6. Uses(tab, o) - Uses(fds[p], o) = At(v, o) - At(fds[p][s], o)
    BY <2>1, <2>2, <2>3
  <2> QED
    BY <2>5, <2>6
<1> QED
  BY <1>3, <1>4

\* A slot that named b names a instead.
LEMMA ReplaceHolders ==
  ASSUME IInv, PipeCounts, NEW p \in Procs, NEW s \in Fds, NEW a \in Ofds, NEW d0 \in Drafts,
         \A o \in Ofds : d0[o].kind \in PipeEnds => d0[o] = ofd[o],
         ofd' = Unref(Ref(d0, a, p), fds[p][s], p),
         SlotSet(p, s, a)
  PROVE  PipeCounts'
<1> DEFINE b == fds[p][s]
           d1 == Ref(d0, a, p)
           tab == [fds[p] EXCEPT ![s] = a]
<1>1. /\ ofd \in Drafts /\ fds \in [Procs -> Tables] /\ \A o \in Ofds : ofd[o] \in Draft
      /\ \A o \in Ofds, h \in Holders : Tracked(ofd[o]) =>
                ofd[o].by[h] = Has(fds, h, o) /\ ofd[o].by[h] \in Nat
      /\ \A o \in Ofds : Has(fds, p, o) = Uses(fds[p], o)
      /\ p \in Holders /\ fds[p] \in Tables
  BY CountsOf
<1>2. b \in Ofds \cup {None} /\ fds[p] \in Tables
  BY <1>1 DEF Tables, Slots
<1>3. /\ tab \in Tables /\ TableSet(p, tab)
      /\ \A o \in Ofds, h \in Holders :
           Shift(fds, p, tab, h, o) = IF h = p THEN At(a, o) - At(b, o) ELSE 0
  BY SlotShift
<1>4. ofd' = Unref(d1, b, p)
  OBVIOUS
<1>5. \A o \in Ofds : b = o => Uses(fds[p], o) >= 1
  BY <1>2, SlotUses
<1> HIDE DEF b, tab
<1>6. d1 \in Drafts /\ \A x \in Ofds : Moves(d0[x], d1[x], p, At(a, x))
  BY <1>1, RefMoves
<1>7. \A o \in Ofds : Tracked(d0[o]) => d0[o] = ofd[o]
  BY DEF Tracked
<1> HIDE DEF d1
<1>8. \A x \in Ofds : At(a, x) \in {0, 1} /\ At(b, x) \in {0, 1}
  BY DEF At
<1>9. ASSUME b \in Ofds, Tracked(d1[b]) PROVE d1[b].by[p] >= 1
  <2>1. Tracked(d0[b]) /\ d1[b].by[p] = d0[b].by[p] + At(a, b)
    BY <1>1, <1>6, <1>9 DEF Moves
  <2>2. d0[b].by[p] = Uses(fds[p], b) /\ Uses(fds[p], b) \in Nat
    BY <1>1, <1>7, <1>9, <2>1
  <2> QED
    BY <1>5, <1>8, <1>9, <2>1, <2>2
<1>10. \A x \in Ofds : Moves(d1[x], ofd'[x], p, 0 - At(b, x))
  BY <1>1, <1>2, <1>4, <1>6, <1>9, UnrefMoves
<1>11. ASSUME NEW o \in Ofds, Tracked(ofd'[o]), NEW h \in Holders
       PROVE  ofd'[o].by[h] = Has(fds, h, o) + Shift(fds, p, tab, h, o)
  <2>1. Tracked(d1[o]) /\ ofd'[o].by[h] = d1[o].by[h] + (IF h = p THEN 0 - At(b, o) ELSE 0)
    BY <1>10, <1>11 DEF Moves
  <2>2. Tracked(d0[o]) /\ d1[o].by[h] = d0[o].by[h] + (IF h = p THEN At(a, o) ELSE 0)
    BY <1>6, <1>11, <2>1 DEF Moves
  <2>3. d0[o].by[h] = Has(fds, h, o) /\ d0[o].by[h] \in Nat
    BY <1>1, <1>7, <2>2
  <2>4. Shift(fds, p, tab, h, o) = IF h = p THEN At(a, o) - At(b, o) ELSE 0
    BY <1>3
  <2>5. At(a, o) \in {0, 1} /\ At(b, o) \in {0, 1}
    BY <1>8
  <2>6. CASE h = p
    BY <2>1, <2>2, <2>3, <2>4, <2>5, <2>6
  <2>7. CASE h # p
    BY <2>1, <2>2, <2>3, <2>4, <2>7
  <2> QED
    BY <2>6, <2>7
<1> QED
  BY <1>3, <1>11, TableHolders

\* A slot is emptied.
LEMMA CloseHolders ==
  ASSUME IInv, PipeCounts, NEW p \in Procs, NEW s \in Fds,
         ofd' = Unref(ofd, fds[p][s], p),
         SlotSet(p, s, None)
  PROVE  PipeCounts'
<1> DEFINE b == fds[p][s]
           tab == [fds[p] EXCEPT ![s] = None]
<1>1. /\ ofd \in Drafts /\ fds \in [Procs -> Tables] /\ \A o \in Ofds : ofd[o] \in Draft
      /\ \A o \in Ofds, h \in Holders : Tracked(ofd[o]) =>
                ofd[o].by[h] = Has(fds, h, o) /\ ofd[o].by[h] \in Nat
      /\ \A o \in Ofds : Has(fds, p, o) = Uses(fds[p], o)
      /\ p \in Holders /\ fds[p] \in Tables
  BY CountsOf
<1>2. b \in Ofds \cup {None} /\ fds[p] \in Tables
  BY <1>1 DEF Tables, Slots
<1>3. /\ tab \in Tables /\ TableSet(p, tab)
      /\ \A o \in Ofds, h \in Holders :
           Shift(fds, p, tab, h, o) = IF h = p THEN At(None, o) - At(b, o) ELSE 0
  BY SlotShift
<1>4. ofd' = Unref(ofd, b, p)
  OBVIOUS
<1>5. \A o \in Ofds : b = o => Uses(fds[p], o) >= 1
  BY <1>2, SlotUses
<1>6. \A o \in Ofds : At(None, o) = 0
  BY FileTableAssumption DEF At, None, Ofds
<1> HIDE DEF b, tab
<1>7. \A x \in Ofds : At(b, x) \in {0, 1}
  BY DEF At
<1>8. \A x \in Ofds : Moves(ofd[x], ofd'[x], p, 0 - At(b, x))
  BY <1>1, <1>2, <1>4, <1>5, UnrefMoves
<1>9. ASSUME NEW o \in Ofds, Tracked(ofd'[o]), NEW h \in Holders
      PROVE  ofd'[o].by[h] = Has(fds, h, o) + Shift(fds, p, tab, h, o)
  <2>1. Tracked(ofd[o]) /\ ofd'[o].by[h] = ofd[o].by[h] + (IF h = p THEN 0 - At(b, o) ELSE 0)
    BY <1>8, <1>9 DEF Moves
  <2>2. Shift(fds, p, tab, h, o) = IF h = p THEN At(None, o) - At(b, o) ELSE 0
    BY <1>3
  <2> QED
    BY <1>1, <1>6, <1>7, <2>1, <2>2
<1> QED
  BY <1>3, <1>9, TableHolders

----------------------------------------------------------------------------
(* Holder maps: steps that rewrite a whole table                            *)

\* Everything is released: the strace reference, then the descriptors.
LEMMA ReleaseHoldersTraceFirst ==
  ASSUME IInv, PipeCounts, NEW p \in Procs,
         ofd' = UnrefAll(Unref(ofd, fds[p][Trace], Kernel), fds[p], p),
         TableSet(p, Empty)
  PROVE  PipeCounts'
<1> DEFINE t == fds[p][Trace]
           tab == fds[p]
           d == Unref(ofd, t, Kernel)
<1>1. /\ ofd \in Drafts /\ tab \in Tables /\ t \in Ofds \cup {None}
      /\ \A o \in Ofds : Tracked(ofd[o]) =>
             /\ ofd[o].by[p] = Uses(tab, o) /\ ofd[o].by[Kernel] = Traces(fds, o)
             /\ \A h \in Holders : ofd[o].by[h] = Has(fds, h, o) /\ ofd[o].by[h] \in Nat
      /\ p \in Holders /\ Kernel \in Holders /\ p # Kernel
  BY CountsOf
<1>2. \A o \in Ofds : Traces(fds, o) \in Nat /\ Uses(tab, o) \in Nat /\ Uses(Empty, o) = 0
  <2>1. \A o \in Ofds : Has(fds, Kernel, o) \in Nat
    BY HasType, Counts
  <2> QED
    BY <1>1, <2>1, UsesAndTrace, EmptyTable DEF Has
<1>3. t \in Ofds => Traces(fds, t) >= 1
  <2> SUFFICES ASSUME t \in Ofds PROVE Traces(fds, t) >= 1
    OBVIOUS
  <2>1. p \in {q \in Procs : fds[q][Trace] = t}
    OBVIOUS
  <2>2. IsFiniteSet({q \in Procs : fds[q][Trace] = t})
    BY FileTableAssumption, FS_Subset
  <2>3. Cardinality({q \in Procs : fds[q][Trace] = t}) # 0
    BY <2>1, <2>2, FS_EmptySet
  <2> QED
    BY <1>2, <2>3 DEF Traces
<1>4. ofd' = UnrefAll(d, tab, p)
  OBVIOUS
<1>5. Empty \in Tables /\ Empty[Trace] = None /\ \A o \in Ofds : At(None, o) = 0
  BY EmptyTable, FileTableAssumption DEF Empty, Slots, At, None, Ofds
<1>6. \A o \in Ofds, h \in Holders :
        Shift(fds, p, Empty, h, o) = (IF h = p THEN 0 - Uses(tab, o) ELSE 0)
                                      + (IF h = Kernel THEN 0 - At(t, o) ELSE 0)
  BY <1>2, <1>5 DEF Shift
<1> HIDE DEF t, tab
<1>7. d \in Drafts /\ \A x \in Ofds : Moves(ofd[x], d[x], Kernel, 0 - At(t, x))
  BY <1>1, <1>3, UnrefMoves
<1> HIDE DEF d
<1>8. \A x \in Ofds : Tracked(d[x]) => d[x].by[p] >= Uses(tab, x)
  <2> SUFFICES ASSUME NEW x \in Ofds, Tracked(d[x]) PROVE d[x].by[p] >= Uses(tab, x)
    OBVIOUS
  <2>1. Tracked(ofd[x]) /\ d[x].by[p] = ofd[x].by[p] + 0
    BY <1>1, <1>7 DEF Moves
  <2> QED
    BY <1>1, <1>2, <2>1
<1>9. \A x \in Ofds : Moves(d[x], ofd'[x], p, 0 - Uses(tab, x))
  BY <1>1, <1>4, <1>7, <1>8, UnrefAllMoves
<1>10. ASSUME NEW o \in Ofds, Tracked(ofd'[o]), NEW h \in Holders
       PROVE  ofd'[o].by[h] = Has(fds, h, o) + Shift(fds, p, Empty, h, o)
  <2>1. Tracked(d[o]) /\ ofd'[o].by[h] = d[o].by[h] + (IF h = p THEN 0 - Uses(tab, o) ELSE 0)
    BY <1>9, <1>10 DEF Moves
  <2>2. Tracked(ofd[o]) /\ d[o].by[h] = ofd[o].by[h] + (IF h = Kernel THEN 0 - At(t, o) ELSE 0)
    BY <1>7, <1>10, <2>1 DEF Moves
  <2>3. ofd[o].by[h] = Has(fds, h, o) /\ ofd[o].by[h] \in Nat /\ Uses(tab, o) \in Nat
    BY <1>1, <1>2, <2>2
  <2>4. At(t, o) \in {0, 1}
    BY DEF At
  <2> QED
    BY <1>6, <2>1, <2>2, <2>3, <2>4
<1> QED
  BY <1>5, <1>10, TableHolders

\* Everything is released: the descriptors, then the strace reference.
LEMMA ReleaseHoldersTraceLast ==
  ASSUME IInv, PipeCounts, NEW p \in Procs,
         ofd' = Unref(UnrefAll(ofd, fds[p], p), fds[p][Trace], Kernel),
         TableSet(p, Empty)
  PROVE  PipeCounts'
<1> DEFINE t == fds[p][Trace]
           tab == fds[p]
           d == UnrefAll(ofd, tab, p)
<1>1. /\ ofd \in Drafts /\ tab \in Tables /\ t \in Ofds \cup {None}
      /\ \A o \in Ofds : Tracked(ofd[o]) =>
             /\ ofd[o].by[p] = Uses(tab, o) /\ ofd[o].by[Kernel] = Traces(fds, o)
             /\ \A h \in Holders : ofd[o].by[h] = Has(fds, h, o) /\ ofd[o].by[h] \in Nat
      /\ p \in Holders /\ Kernel \in Holders /\ p # Kernel
  BY CountsOf
<1>2. \A o \in Ofds : Traces(fds, o) \in Nat /\ Uses(tab, o) \in Nat /\ Uses(Empty, o) = 0
  <2>1. \A o \in Ofds : Has(fds, Kernel, o) \in Nat
    BY HasType, Counts
  <2> QED
    BY <1>1, <2>1, UsesAndTrace, EmptyTable DEF Has
<1>3. t \in Ofds => Traces(fds, t) >= 1
  <2> SUFFICES ASSUME t \in Ofds PROVE Traces(fds, t) >= 1
    OBVIOUS
  <2>1. p \in {q \in Procs : fds[q][Trace] = t}
    OBVIOUS
  <2>2. IsFiniteSet({q \in Procs : fds[q][Trace] = t})
    BY FileTableAssumption, FS_Subset
  <2>3. Cardinality({q \in Procs : fds[q][Trace] = t}) # 0
    BY <2>1, <2>2, FS_EmptySet
  <2> QED
    BY <1>2, <2>3 DEF Traces
<1>4. ofd' = Unref(d, t, Kernel)
  OBVIOUS
<1>5. Empty \in Tables /\ Empty[Trace] = None /\ \A o \in Ofds : At(None, o) = 0
  BY EmptyTable, FileTableAssumption DEF Empty, Slots, At, None, Ofds
<1>6. \A o \in Ofds, h \in Holders :
        Shift(fds, p, Empty, h, o) = (IF h = p THEN 0 - Uses(tab, o) ELSE 0)
                                      + (IF h = Kernel THEN 0 - At(t, o) ELSE 0)
  BY <1>2, <1>5 DEF Shift
<1> HIDE DEF t, tab
<1>7. \A x \in Ofds : Tracked(ofd[x]) => ofd[x].by[p] >= Uses(tab, x)
  BY <1>1, <1>2
<1>8. d \in Drafts /\ \A x \in Ofds : Moves(ofd[x], d[x], p, 0 - Uses(tab, x))
  BY <1>1, <1>7, UnrefAllMoves
<1> HIDE DEF d
<1>9. t \in Ofds /\ Tracked(d[t]) => d[t].by[Kernel] >= 1
  <2> SUFFICES ASSUME t \in Ofds, Tracked(d[t]) PROVE d[t].by[Kernel] >= 1
    OBVIOUS
  <2>1. Tracked(ofd[t]) /\ d[t].by[Kernel] = ofd[t].by[Kernel] + 0
    BY <1>1, <1>8 DEF Moves
  <2> QED
    BY <1>1, <1>2, <1>3, <2>1
<1>10. \A x \in Ofds : Moves(d[x], ofd'[x], Kernel, 0 - At(t, x))
  BY <1>1, <1>4, <1>8, <1>9, UnrefMoves
<1>11. ASSUME NEW o \in Ofds, Tracked(ofd'[o]), NEW h \in Holders
       PROVE  ofd'[o].by[h] = Has(fds, h, o) + Shift(fds, p, Empty, h, o)
  <2>1. Tracked(d[o]) /\ ofd'[o].by[h] = d[o].by[h] + (IF h = Kernel THEN 0 - At(t, o) ELSE 0)
    BY <1>10, <1>11 DEF Moves
  <2>2. Tracked(ofd[o]) /\ d[o].by[h] = ofd[o].by[h] + (IF h = p THEN 0 - Uses(tab, o) ELSE 0)
    BY <1>8, <1>11, <2>1 DEF Moves
  <2>3. ofd[o].by[h] = Has(fds, h, o) /\ ofd[o].by[h] \in Nat /\ Uses(tab, o) \in Nat
    BY <1>1, <1>2, <2>2
  <2>4. At(t, o) \in {0, 1}
    BY DEF At
  <2> QED
    BY <1>6, <2>1, <2>2, <2>3, <2>4
<1> QED
  BY <1>5, <1>11, TableHolders

\* The descriptors from fd up are dropped.
LEMMA DropHolders ==
  ASSUME IInv, PipeCounts, NEW p \in Procs, NEW fd \in Fds, NEW dropped, NEW kept,
         dropped = [s \in Slots |-> IF s >= fd THEN fds[p][s] ELSE None],
         kept = [s \in Slots |-> IF s >= fd THEN None ELSE fds[p][s]],
         ofd' = UnrefAll(ofd, dropped, p),
         TableSet(p, kept)
  PROVE  PipeCounts'
<1>1. /\ ofd \in Drafts /\ fds[p] \in Tables
      /\ \A o \in Ofds : Tracked(ofd[o]) =>
             /\ ofd[o].by[p] = Uses(fds[p], o)
             /\ \A h \in Holders : ofd[o].by[h] = Has(fds, h, o) /\ ofd[o].by[h] \in Nat
      /\ p \in Holders /\ p # Kernel
  BY CountsOf
<1>2. kept \in Tables /\ dropped \in Tables
  BY <1>1 DEF Tables
<1>3. None \notin Ofds /\ Trace \in Slots /\ ~(Trace >= fd)
  BY FileTableAssumption DEF None, Ofds, Trace, Fds, Slots
<1>4. kept[Trace] = fds[p][Trace]
  BY <1>3
<1>5. \A o \in Ofds : Uses(kept, o) \in Nat /\ Uses(dropped, o) \in Nat /\ Uses(fds[p], o) \in Nat
  BY <1>1, <1>2, UsesAndTrace
<1>6. ASSUME NEW o \in Ofds PROVE Uses(fds[p], o) = Uses(kept, o) + Uses(dropped, o)
  <2> DEFINE A == {s \in Fds : kept[s] = o}
             B == {s \in Fds : dropped[s] = o}
             C == {s \in Fds : fds[p][s] = o}
  <2>1. C = A \cup B /\ A \cap B = {}
    BY <1>3 DEF Slots
  <2>2. IsFiniteSet(A) /\ IsFiniteSet(B)
    <3>1. IsFiniteSet(Fds)
      BY FS_Interval, FileTableAssumption DEF Fds
    <3> QED
      BY <3>1, FS_Subset
  <2>3. /\ Uses(kept, o) = Cardinality(A) /\ Uses(dropped, o) = Cardinality(B)
        /\ Uses(fds[p], o) = Cardinality(C)
    BY DEF Uses
  <2> HIDE DEF A, B, C
  <2>4. Cardinality(C) = Cardinality(A) + Cardinality(B) - Cardinality(A \cap B)
    BY <2>1, <2>2, FS_Union
  <2>5. Cardinality(A \cap B) = 0
    BY <2>1, FS_EmptySet
  <2> QED
    BY <1>5, <2>3, <2>4, <2>5
<1>7. \A x \in Ofds : Tracked(ofd[x]) => ofd[x].by[p] >= Uses(dropped, x)
  BY <1>1, <1>5, <1>6
<1>8. \A x \in Ofds : Moves(ofd[x], ofd'[x], p, 0 - Uses(dropped, x))
  BY <1>1, <1>2, <1>7, UnrefAllMoves
<1>9. ASSUME NEW o \in Ofds, Tracked(ofd'[o]), NEW h \in Holders
      PROVE  ofd'[o].by[h] = Has(fds, h, o) + Shift(fds, p, kept, h, o)
  <2>1. /\ Tracked(ofd[o])
        /\ ofd'[o].by[h] = ofd[o].by[h] + (IF h = p THEN 0 - Uses(dropped, o) ELSE 0)
    BY <1>8, <1>9 DEF Moves
  <2>2. Shift(fds, p, kept, h, o) = IF h = p THEN Uses(kept, o) - Uses(fds[p], o) ELSE 0
    <3>1. At(kept[Trace], o) - At(fds[p][Trace], o) = 0
      BY <1>4 DEF At
    <3>2. Uses(kept, o) - Uses(fds[p], o) \in Int
      BY <1>5
    <3> QED
      BY <3>1, <3>2 DEF Shift
  <2> QED
    BY <1>1, <1>5, <1>6, <2>1, <2>2
<1> QED
  BY <1>2, <1>9, TableHolders

\* A child is given its parent's descriptors and a strace reference.
LEMMA ChildHolders ==
  ASSUME IInv, PipeCounts, NEW p \in Procs, NEW c \in Procs, NEW tr \in Ofds \cup {None},
         Fresh(c), Child(p, c, tr)
  PROVE  PipeCounts'
<1> DEFINE tab == Inherited(p)
           d == RefAll(ofd, tab, c)
           new == [tab EXCEPT ![Trace] = tr]
<1>1. /\ ofd \in Drafts
      /\ \A o \in Ofds : Tracked(ofd[o]) =>
             \A h \in Holders : ofd[o].by[h] = Has(fds, h, o) /\ ofd[o].by[h] \in Nat
      /\ c \in Holders /\ Kernel \in Holders /\ c # Kernel
  BY CountsOf
<1>2. tab \in Tables /\ tab[Trace] = None /\ Trace \in Slots /\ Trace \notin Fds
  BY Typed, FileTableAssumption DEF IInv, Inherited, Tables, Fds, Trace, Slots
<1>3. TableSet(c, new) /\ ofd' = IF tr = None THEN d ELSE Ref(d, tr, Kernel)
  BY DEF Child, TableSet
<1>4. new \in Tables /\ new[Trace] = tr /\ \A s \in Fds : new[s] = tab[s]
  BY <1>2 DEF Tables, Slots
<1>5. fds[c] = Empty /\ Empty[Trace] = None
  BY FreshEmpty, <1>2 DEF Empty
<1>6. \A o \in Ofds : At(None, o) = 0
  BY FileTableAssumption DEF At, None, Ofds
<1>7. \A o \in Ofds : Uses(new, o) = Uses(tab, o) /\ Uses(tab, o) \in Nat /\ Uses(fds[c], o) = 0
  BY <1>2, <1>4, <1>5, EmptyTable, UsesAndTrace DEF Uses
<1> HIDE DEF new, tab
<1>8. d \in Drafts /\ \A x \in Ofds : Moves(ofd[x], d[x], c, Uses(tab, x))
  BY <1>1, <1>2, RefAllMoves
<1> HIDE DEF d
<1>9. ASSUME NEW x \in Ofds, Tracked(ofd'[x]), NEW h \in Holders
      PROVE  /\ Tracked(d[x])
             /\ ofd'[x].by[h] = d[x].by[h] + (IF h = Kernel THEN At(tr, x) ELSE 0)
  <2>1. CASE tr = None
    <3>1. ofd' = d /\ At(tr, x) = 0 /\ d[x].by[h] \in Nat
      BY <1>3, <1>6, <1>8, <2>1 DEF Drafts, Draft
    <3> QED
      BY <1>9, <3>1
  <2>2. CASE tr \in Ofds /\ tr # None
    <3>1. Moves(d[x], ofd'[x], Kernel, At(tr, x))
      BY <1>1, <1>3, <1>8, <2>2, RefMoves
    <3> QED
      BY <1>9, <3>1 DEF Moves
  <2> QED
    BY <2>1, <2>2
<1>10. ASSUME NEW o \in Ofds, Tracked(ofd'[o]), NEW h \in Holders
       PROVE  ofd'[o].by[h] = Has(fds, h, o) + Shift(fds, c, new, h, o)
  <2>1. /\ Tracked(d[o])
        /\ ofd'[o].by[h] = d[o].by[h] + (IF h = Kernel THEN At(tr, o) ELSE 0)
    BY <1>9, <1>10
  <2>2. Tracked(ofd[o]) /\ d[o].by[h] = ofd[o].by[h] + (IF h = c THEN Uses(tab, o) ELSE 0)
    BY <1>8, <1>10, <2>1 DEF Moves
  <2>3. Shift(fds, c, new, h, o) = (IF h = c THEN Uses(tab, o) ELSE 0)
                                    + (IF h = Kernel THEN At(tr, o) ELSE 0)
    <3>1. Uses(new, o) - Uses(fds[c], o) = Uses(tab, o)
      BY <1>7
    <3>2. At(new[Trace], o) - At(fds[c][Trace], o) = At(tr, o)
      BY <1>4, <1>5, <1>6 DEF At
    <3> QED
      BY <3>1, <3>2 DEF Shift
  <2>4. At(tr, o) \in {0, 1}
    BY DEF At
  <2> QED
    BY <1>1, <1>7, <2>1, <2>2, <2>3, <2>4
<1> QED
  BY <1>3, <1>4, <1>10, TableHolders

\* Neither the tables nor the descriptions change.
LEMMA StillHolders ==
  ASSUME PipeCounts, UNCHANGED <<fds, ofd>>
  PROVE  PipeCounts'
  BY DEF PipeCounts, Tracked, Has, Traces, Uses

----------------------------------------------------------------------------
(* Holder maps: the actions                                                 *)

\* Nothing holds a description that is not made yet.
LEMMA UnheldNew ==
  ASSUME IInv, NEW o \in Ofds, o >= next
  PROVE  \A h \in Holders : Has(fds, h, o) = 0
<1>1. Total(fds, o) = 0
  BY NewUnnamed
<1>2. \A q \in Procs, s \in Slots : fds[q][s] # o
  <2>1. Refs(fds, o) = {}
    BY <1>1, TotalType
  <2> SUFFICES ASSUME NEW q \in Procs, NEW s \in Slots, fds[q][s] = o PROVE FALSE
    OBVIOUS
  <2>2. <<q, s>> \in Refs(fds, o)
    BY DEF Refs
  <2> QED
    BY <2>1, <2>2
<1>3. Trace \in Slots /\ Fds \subseteq Slots
  BY DEF Slots
<1>4. {q \in Procs : fds[q][Trace] = o} = {} /\ \A q \in Procs : {s \in Fds : fds[q][s] = o} = {}
  BY <1>2, <1>3
<1> QED
  BY <1>4, FS_EmptySet DEF Has, Traces, Uses, Holders

LEMMA OpenHolders ==
  ASSUME IInv, PipeCounts, NEW p \in Procs, NEW s \in Fds, next \in Ofds,
         ofd' = Unref(Ref([ofd EXCEPT ![next] = Made("file")], next, p), fds[p][s], p),
         fds' = [fds EXCEPT ![p][s] = next]
  PROVE  PipeCounts'
<1> DEFINE d0 == [ofd EXCEPT ![next] = Made("file")]
<1>1. Made("file") \in Desc /\ Made("file").kind = "file"
  BY MadeLive DEF Kinds, PipeEnds
<1>2. ofd \in Drafts
  BY CountsOf
<1>3. Made("file") \in Draft
  BY <1>1 DEF Desc, Draft
<1>4. d0 \in Drafts /\ \A o \in Ofds : d0[o].kind \in PipeEnds => d0[o] = ofd[o]
  BY <1>1, <1>2, <1>3 DEF Drafts, PipeEnds
<1>5. ofd' = Unref(Ref(d0, next, p), fds[p][s], p) /\ SlotSet(p, s, next)
  BY DEF SlotSet
<1> HIDE DEF d0
<1> QED
  BY <1>4, <1>5, ReplaceHolders

LEMMA DupHolders ==
  ASSUME IInv, PipeCounts, NEW p \in Procs, NEW s \in Fds, NEW a \in Ofds,
         ofd' = Unref(Ref(ofd, a, p), fds[p][s], p),
         SlotSet(p, s, a)
  PROVE  PipeCounts'
<1>1. ofd \in Drafts
  BY CountsOf
<1> QED
  BY <1>1, ReplaceHolders

LEMMA PipeHolders == ASSUME IInv, PipeCounts, NEW p \in Procs, Pipe(p) PROVE PipeCounts'
<1>1. PICK r \in Fds, w \in Fds :
        /\ next \in Ofds /\ next + 1 \in Ofds
        /\ Free(fds[p], r) /\ Free([fds[p] EXCEPT ![r] = next], w)
        /\ ofd' = Ref(Ref([ofd EXCEPT ![next] = Made("read"), ![next + 1] = Made("write")],
                          next, p), next + 1, p)
        /\ TableSet(p, [[fds[p] EXCEPT ![r] = next] EXCEPT ![w] = next + 1])
  BY DEF Pipe, TableSet
<1> DEFINE a == next
           b == next + 1
           d0 == [ofd EXCEPT ![a] = Made("read"), ![b] = Made("write")]
           d1 == Ref(d0, a, p)
           old == fds[p]
           tab1 == [old EXCEPT ![r] = a]
           tab == [tab1 EXCEPT ![w] = b]
<1>2. /\ ofd \in Drafts /\ old \in Tables /\ p \in Holders /\ p # Kernel /\ r \in Slots
      /\ w \in Slots
      /\ \A o \in Ofds : Tracked(ofd[o]) =>
             \A h \in Holders : ofd[o].by[h] = Has(fds, h, o) /\ ofd[o].by[h] \in Nat
  BY CountsOf DEF Slots
<1>3. a \in Ofds /\ b \in Ofds /\ a # b /\ None \notin Ofds /\ a >= next /\ b >= next
  BY <1>1, FileTableAssumption DEF Ofds, None
<1>4. tab1 \in Tables /\ tab \in Tables /\ tab1[w] = None /\ old[r] = None
  BY <1>1, <1>2, <1>3 DEF Tables, Free
<1>5. ofd' = Ref(d1, b, p) /\ TableSet(p, tab)
  BY <1>1
<1>6. \A h \in Holders : Has(fds, h, a) = 0 /\ Has(fds, h, b) = 0
  BY <1>3, UnheldNew
<1>7. /\ Made("read") \in Draft /\ Made("write") \in Draft
      /\ \A h \in Holders : Made("read").by[h] = 0 /\ Made("write").by[h] = 0
  <2>1. Made("read") \in Desc /\ Made("write") \in Desc
    BY MadeLive DEF Kinds, PipeEnds
  <2>2. Made("read") \in Draft /\ Made("write") \in Draft
    BY <2>1 DEF Desc, Draft
  <2>3. \A h \in Holders : Made("read").by[h] = 0 /\ Made("write").by[h] = 0
    BY DEF Made, Unmade
  <2> QED
    BY <2>2, <2>3
<1>8. d0 \in Drafts /\ d0[a] = Made("read") /\ d0[b] = Made("write")
      /\ \A o \in Ofds \ {a, b} : d0[o] = ofd[o]
  BY <1>2, <1>3, <1>7 DEF Drafts
<1>9. \A o \in Ofds : Uses(tab1, o) = Uses(old, o) - At(None, o) + At(a, o)
      /\ tab1[Trace] = old[Trace]
  BY <1>2, <1>3, <1>4, SlotUses
<1> HIDE DEF tab1
<1>10. \A o \in Ofds : Uses(tab, o) = Uses(tab1, o) - At(None, o) + At(b, o)
       /\ tab[Trace] = tab1[Trace]
  BY <1>2, <1>3, <1>4, SlotUses
<1>11. \A o \in Ofds : Uses(old, o) \in Nat /\ At(None, o) = 0
  BY <1>2, <1>3, UsesAndTrace DEF At
<1>12. d1 \in Drafts /\ \A x \in Ofds : Moves(d0[x], d1[x], p, At(a, x))
  <2> HIDE DEF d0, a
  <2> QED
    BY <1>2, <1>3, <1>8, RefMoves
<1>13. \A x \in Ofds : Moves(d1[x], ofd'[x], p, At(b, x))
  <2> HIDE DEF d1, b
  <2> QED
    BY <1>2, <1>3, <1>5, <1>12, RefMoves
<1> HIDE DEF a, b, d0, d1, old, tab
<1>14. ASSUME NEW o \in Ofds, Tracked(ofd'[o]), NEW h \in Holders
       PROVE  ofd'[o].by[h] = Has(fds, h, o) + Shift(fds, p, tab, h, o)
  <2>1. Tracked(d1[o]) /\ ofd'[o].by[h] = d1[o].by[h] + (IF h = p THEN At(b, o) ELSE 0)
    BY <1>13, <1>14 DEF Moves
  <2>2. Tracked(d0[o]) /\ d1[o].by[h] = d0[o].by[h] + (IF h = p THEN At(a, o) ELSE 0)
    BY <1>12, <1>14, <2>1 DEF Moves
  <2>3. d0[o].by[h] = Has(fds, h, o) /\ d0[o].by[h] \in Nat
    BY <1>2, <1>6, <1>7, <1>8, <1>14, <2>2
  <2>4. At(a, o) \in {0, 1} /\ At(b, o) \in {0, 1}
    BY DEF At
  <2>5. Shift(fds, p, tab, h, o) = IF h = p THEN At(a, o) + At(b, o) ELSE 0
    <3>1. Uses(tab, o) - Uses(fds[p], o) = At(a, o) + At(b, o)
      BY <1>9, <1>10, <1>11, <2>4 DEF old
    <3>2. At(tab[Trace], o) - At(fds[p][Trace], o) = 0
      BY <1>9, <1>10 DEF At, old
    <3>3. Shift(fds, p, tab, h, o) = (IF h = p THEN At(a, o) + At(b, o) ELSE 0) + 0
      BY <3>1, <3>2 DEF Shift
    <3> QED
      BY <2>4, <3>3
  <2> QED
    BY <2>1, <2>2, <2>3, <2>4, <2>5
<1> QED
  BY <1>4, <1>5, <1>14, TableHolders

LEMMA CallHolders == ASSUME IInv, PipeCounts, NEW p \in Procs, Call(p) PROVE PipeCounts'
<1>1. CASE Open(p)
  <2>1. PICK fd \in Fds :
          /\ next \in Ofds /\ fds[p][fd] = None
          /\ ofd' = Ref([ofd EXCEPT ![next] = Made("file")], next, p)
          /\ fds' = [fds EXCEPT ![p][fd] = next]
    BY <1>1 DEF Open, Free
  <2>2. ofd' = Unref(Ref([ofd EXCEPT ![next] = Made("file")], next, p), fds[p][fd], p)
    BY <2>1 DEF Unref
  <2> QED
    BY <2>1, <2>2, OpenHolders
<1>2. CASE Close(p)
  <2>1. PICK fd \in Fds : ofd' = Unref(ofd, fds[p][fd], p) /\ SlotSet(p, fd, None)
    BY <1>2 DEF Close, SlotSet
  <2> QED
    BY <2>1, CloseHolders
<1>3. CASE Dup(p) \/ Dup2(p)
  <2>1. PICK fd \in Fds, to \in Fds :
          /\ fds[p][fd] # None
          /\ ofd' = Unref(Ref(ofd, fds[p][fd], p), fds[p][to], p)
          /\ SlotSet(p, to, fds[p][fd])
    <3>1. CASE Dup(p)
      <4>1. PICK fd \in Fds, to \in Fds :
              /\ fds[p][fd] # None /\ fds[p][to] = None
              /\ ofd' = Ref(ofd, fds[p][fd], p)
              /\ fds' = [fds EXCEPT ![p][to] = fds[p][fd]]
        BY <3>1 DEF Dup, FreeFrom, Names
      <4>2. Unref(Ref(ofd, fds[p][fd], p), fds[p][to], p) = Ref(ofd, fds[p][fd], p)
        BY <4>1 DEF Unref
      <4> QED
        BY <4>1, <4>2 DEF SlotSet
    <3>2. CASE Dup2(p)
      BY <3>2 DEF Dup2, SlotSet, Names
    <3> QED
      BY <1>3, <3>1, <3>2
  <2>2. fd \in Slots
    BY DEF Slots
  <2>3. fds[p][fd] \in Ofds
    BY <2>1, <2>2, NamedLive
  <2> QED
    BY <2>1, <2>3, DupHolders
<1>4. CASE Exit(p)
  BY <1>4, ReleaseHoldersTraceFirst DEF Exit, TableSet
<1> QED
  BY <1>1, <1>2, <1>3, <1>4, PipeHolders DEF Call

LEMMA MakingHolders ==
  ASSUME IInv, PipeCounts, NEW c \in Procs, Making(c)
  PROVE  PipeCounts'
<1>1. CASE SpawnFirst(c)
  <2> DEFINE tab == [s \in Slots |-> IF s \in StdFds THEN StdOf(s) ELSE None]
  <2>1. /\ Fresh(c) /\ TableSet(c, tab) /\ ofd' = WithStd
        /\ (StdReady \/ next + MaxStd \in Ofds)
    BY <1>1 DEF SpawnFirst, TableSet
  <2>2. 0 \in StdFds /\ next \in Nat /\ next >= 1
    BY FileTableAssumption DEF IInv, TypeOK, StdFds
  <2>3. IF services = {} THEN ~StdReady /\ \A s \in StdFds : StdOf(s) = next + s
        ELSE StdReady /\ \A s \in StdFds : StdOf(s) \in Ofds /\ ofd[StdOf(s)].kind = "std"
    <3>1. CASE services = {}
      BY <2>2, <3>1 DEF IInv, StdOnce, StdReady, StdOf
    <3>2. CASE services # {}
      <4>1. \A s \in StdFds : std[s] \in Ofds /\ std[s] # None /\ ofd[std[s]].kind = "std"
        BY <3>2, FileTableAssumption DEF IInv, StdMade, Ofds, None
      <4> QED
        BY <3>2, <4>1 DEF StdReady, StdOf
    <3> QED
      BY <3>1, <3>2
  <2>5. \A s \in StdFds : StdOf(s) \in Ofds
    <3>1. CASE services = {}
      <4>1. next + MaxStd \in Ofds
        BY <2>1, <2>3, <3>1
      <4> QED
        BY <2>2, <2>3, <3>1, <4>1, FileTableAssumption DEF Ofds, StdFds
    <3>2. CASE services # {}
      BY <2>3, <3>2
    <3> QED
      BY <3>1, <3>2
  <2>6. tab \in Tables
    BY <2>5 DEF Tables
  <2>7. fds[c] = Empty /\ Empty[Trace] = None /\ tab[Trace] = None /\ Trace \notin Fds
    BY <2>1, FreshEmpty, FileTableAssumption DEF Empty, Slots, StdFds, Trace, Fds
  <2>8. ASSUME NEW o \in Ofds, Tracked(ofd'[o]), NEW h \in Holders
        PROVE  ofd'[o].by[h] = Has(fds, h, o) + Shift(fds, c, tab, h, o)
    <3>1. ~\E s \in StdFds : StdOf(s) = o
      <4> SUFFICES ASSUME NEW s \in StdFds, StdOf(s) = o PROVE FALSE
        OBVIOUS
      <4>1. ofd'[o] = [IF StdReady THEN ofd[o] ELSE Made("std") EXCEPT !.refs = @ + 1]
        BY <2>1 DEF WithStd
      <4>2. ofd'[o].kind = "std"
        <5>1. CASE services = {}
          BY <2>3, <4>1, <5>1 DEF Made, Unmade
        <5>2. CASE services # {}
          <6>1. ofd[o].kind = "std" /\ ofd[o] \in Desc
            BY <2>3, <5>2, Typed DEF IInv, Map
          <6> QED
            BY <2>3, <4>1, <5>2, <6>1 DEF Desc
        <5> QED
          BY <5>1, <5>2
      <4> QED
        BY <2>8, <4>2 DEF Tracked, PipeEnds
    <3>2. ofd'[o] = ofd[o]
      BY <2>1, <3>1 DEF WithStd
    <3>3. {s \in Fds : tab[s] = o} = {}
      BY <3>1, FileTableAssumption DEF Slots, None, Ofds
    <3>4. Uses(tab, o) = 0 /\ Uses(fds[c], o) = 0
      <4>1. Uses(tab, o) = Cardinality({s \in Fds : tab[s] = o})
        BY DEF Uses
      <4>2. Uses(tab, o) = 0
        BY <3>3, <4>1, FS_EmptySet
      <4> QED
        BY <2>7, <4>2, EmptyTable
    <3>5. Shift(fds, c, tab, h, o) = 0
      <4>1. At(tab[Trace], o) - At(fds[c][Trace], o) = 0 /\ Uses(tab, o) - Uses(fds[c], o) = 0
        BY <2>7, <3>4 DEF At
      <4> QED
        BY <4>1 DEF Shift
    <3>6. ofd[o].by[h] = Has(fds, h, o) /\ ofd[o].by[h] \in Nat
      BY <2>8, <3>2, CountsOf
    <3> QED
      BY <3>2, <3>5, <3>6
  <2> HIDE DEF tab
  <2> QED
    BY <2>1, <2>6, <2>8, TableHolders
<1>2. ASSUME NEW p \in Procs, Spawn(p, c) PROVE PipeCounts'
  <2>1. \E tr \in Ofds \cup {None} : Child(p, c, tr)
    <3>1. fds[p] \in Tables /\ Trace \in Slots /\ Fds \subseteq Slots
      BY CountsOf DEF Slots
    <3>2. \A s \in Slots : fds[p][s] \in Ofds \cup {None}
      BY <3>1 DEF Tables
    <3> QED
      BY <1>2, <3>1, <3>2 DEF Spawn
  <2>2. Fresh(c)
    BY <1>2 DEF Spawn
  <2> QED
    BY <2>1, <2>2, ChildHolders
<1>3. ASSUME NEW p \in Procs, SpawnRefused(p, c) PROVE PipeCounts'
  BY <1>3, StillHolders DEF SpawnRefused
<1> QED
  BY <1>1, <1>2, <1>3 DEF Making

LEMMA LoopHolders == ASSUME IInv, PipeCounts, Loop PROVE PipeCounts'
<1>1. CASE ActDup2
  <2>1. making \in Procs
    BY <1>1, ActingFacts DEF ActDup2
  <2>2. PICK fd \in Fds, to \in Fds :
          /\ fds[making][fd] # None
          /\ ofd' = Unref(Ref(ofd, fds[making][fd], making), fds[making][to], making)
          /\ SlotSet(making, to, fds[making][fd])
    BY <1>1 DEF ActDup2, SlotSet
  <2>3. fd \in Slots
    BY DEF Slots
  <2>4. fds[making][fd] \in Ofds
    BY <2>1, <2>2, <2>3, NamedLive
  <2> QED
    BY <2>1, <2>2, <2>4, DupHolders
<1>2. CASE ActOpen
  <2>1. making \in Procs
    BY <1>2, ActingFacts DEF ActOpen
  <2> QED
    BY <1>2, <2>1, OpenHolders DEF ActOpen
<1>3. CASE ActClose
  <2>1. making \in Procs
    BY <1>3, ActingFacts DEF ActClose
  <2> QED
    BY <1>3, <2>1, CloseHolders DEF ActClose, SlotSet
<1>4. CASE ActCloseFrom
  <2>1. making \in Procs
    BY <1>4, ActingFacts DEF ActCloseFrom
  <2>2. PICK fd \in Fds :
          /\ ofd' = UnrefAll(ofd, [s \in Slots |-> IF s >= fd THEN fds[making][s] ELSE None],
                             making)
          /\ fds' = [fds EXCEPT ![making] = [s \in Slots |-> IF s >= fd THEN None ELSE @[s]]]
    BY <1>4 DEF ActCloseFrom
  <2> DEFINE dropped == [s \in Slots |-> IF s >= fd THEN fds[making][s] ELSE None]
             kept == [s \in Slots |-> IF s >= fd THEN None ELSE fds[making][s]]
  <2>3. ofd' = UnrefAll(ofd, dropped, making) /\ TableSet(making, kept)
    BY <2>2 DEF TableSet
  <2> QED
    BY <2>1, <2>3, DropHolders
<1>5. CASE ActFail
  <2>1. making \in Procs
    BY <1>5, ActingFacts DEF ActFail
  <2> QED
    BY <1>5, <2>1, ReleaseHoldersTraceLast DEF ActFail, TableSet
<1>6. CASE Start \/ WorkerThrew
  BY <1>6, StillHolders DEF Start, WorkerThrew
<1> QED
  BY <1>1, <1>2, <1>3, <1>4, <1>5, <1>6 DEF Loop

LEMMA NextHolders == IInv /\ PipeCounts /\ [Next]_vars => PipeCounts'
<1> SUFFICES ASSUME IInv, PipeCounts, [Next]_vars PROVE PipeCounts'
  OBVIOUS
<1>1. CASE UNCHANGED vars
  BY <1>1, StillHolders DEF vars
<1> QED
  BY <1>1, CallHolders, MakingHolders, LoopHolders DEF Next

(* The count kept for a holder is the number of references the tables give  *)
(* that holder.                                                             *)
LEMMA PipeCountsExact ==
  ASSUME IInv, PipeCounts
  PROVE  HoldersExact
<1> SUFFICES ASSUME NEW o \in Ofds, Tracked(ofd[o]), NEW q \in Holders
             PROVE  ofd[o].by[q]
                      = Cardinality({u \in References(o) : HolderOf(u[1], u[2]) = q})
  BY DEF HoldersExact, Tracked
<1> DEFINE S == {u \in References(o) : HolderOf(u[1], u[2]) = q}
<1>1. ofd[o].by[q] = Has(fds, q, o)
  BY Counts
<1>2. Trace \notin Fds /\ Kernel \notin Procs
  <2>1. Trace \notin Fds
    BY FileTableAssumption DEF Trace, Fds
  <2>2. Kernel \notin Procs
    BY FileTableAssumption
  <2> QED
    BY <2>1, <2>2
<1>3. CASE q \in Procs
  <2> DEFINE D == {s \in Fds : fds[q][s] = o}
             f == [s \in D |-> <<q, s>>]
  <2>1. \A u \in S : u = <<q, u[2]>> /\ u[2] \in D
    BY <1>2, <1>3 DEF References, HolderOf, Slots
  <2>2. \A s \in D : <<q, s>> \in S
    BY <1>2, <1>3 DEF References, HolderOf, Slots
  <2>3. f \in Bijection(D, S)
    <3>1. f \in [D -> S]
      BY <2>2
    <3>2. \A a, b \in D : f[a] = f[b] => a = b
      OBVIOUS
    <3>3. \A u \in S : \E s \in D : f[s] = u
      BY <2>1
    <3> QED
      BY <3>1, <3>2, <3>3 DEF Bijection, Injection, Surjection, IsInjective
  <2>4. IsFiniteSet(D)
    <3>1. IsFiniteSet(Fds)
      BY FS_Interval, FileTableAssumption DEF Fds
    <3> QED
      BY <3>1, FS_Subset
  <2>5. Has(fds, q, o) = Cardinality(D)
    BY <1>2, <1>3 DEF Has, Uses
  <2> HIDE DEF D, S
  <2>6. Cardinality(S) = Cardinality(D)
    BY <2>3, <2>4, FS_Bijection DEF ExistsBijection
  <2> QED
    BY <1>1, <2>5, <2>6 DEF S
<1>4. CASE q = Kernel
  <2> DEFINE D == {p \in Procs : fds[p][Trace] = o}
             f == [p \in D |-> <<p, Trace>>]
  <2>1. \A u \in S : u = <<u[1], Trace>> /\ u[1] \in D
    BY <1>2, <1>4 DEF References, HolderOf, Slots
  <2>2. \A p \in D : <<p, Trace>> \in S
    BY <1>2, <1>4 DEF References, HolderOf, Slots
  <2>3. f \in Bijection(D, S)
    <3>1. f \in [D -> S]
      BY <2>2
    <3>2. \A a, b \in D : f[a] = f[b] => a = b
      OBVIOUS
    <3>3. \A u \in S : \E p \in D : f[p] = u
      BY <2>1
    <3> QED
      BY <3>1, <3>2, <3>3 DEF Bijection, Injection, Surjection, IsInjective
  <2>4. IsFiniteSet(D)
    BY FS_Subset, FileTableAssumption
  <2>5. Has(fds, q, o) = Cardinality(D)
    BY <1>4 DEF Has, Traces
  <2> HIDE DEF D, S
  <2>6. Cardinality(S) = Cardinality(D)
    BY <2>3, <2>4, FS_Bijection DEF ExistsBijection
  <2> QED
    BY <1>1, <2>5, <2>6 DEF S
<1> QED
  BY <1>3, <1>4 DEF Holders

----------------------------------------------------------------------------
(* Theorems                                                                 *)

LEMMA InvariantHolds == Spec => []IInv
<1>1. Init => IInv
  BY InitInv
<1>2. IInv /\ [Next]_vars => IInv'
  BY NextInv
<1> QED
  BY <1>1, <1>2, PTL DEF Spec

\* The tables, the descriptions and the loop of a spawn keep their types.
THEOREM TypeCorrect == Spec => []TypeOK
<1>1. IInv => TypeOK
  BY DEF IInv
<1> QED
  BY <1>1, InvariantHolds, PTL

\* The count of every open description is the number of references to it.
THEOREM CountsAreExact == Spec => []RefsExact
<1>1. IInv => RefsExact
  <2> SUFFICES ASSUME IInv, NEW o \in Ofds, ofd[o].open
               PROVE  ofd[o].refs = Cardinality(References(o))
    BY DEF RefsExact
  <2>1. Sound(ofd[o], Total(fds, o)) /\ Total(fds, o) = Cardinality(References(o))
    BY DEF IInv, Counted, References, Total, Refs
  <2> QED
    BY <2>1 DEF Sound, Live, Gone
<1> QED
  BY <1>1, InvariantHolds, PTL

\* A description is open only while it is referenced, and released once; what
\* names a released one is a standard slot of a process without a parent.
THEOREM ReleasedOnceAtLastUse == Spec => []ReleasedAtLastUse
<1>1. ASSUME IInv PROVE ReleasedAtLastUse
  <2> SUFFICES ASSUME NEW o \in Ofds
      PROVE  /\ ofd[o].open => References(o) # {}
             /\ ~ofd[o].open => \A u \in References(o) : StdSlot(u[1], u[2])
             /\ ofd[o].closes = IF ofd[o].kind # "unmade" /\ ~ofd[o].open THEN 1 ELSE 0
    BY DEF ReleasedAtLastUse
  <2>1. References(o) = Refs(fds, o)
    BY DEF References, Refs
  <2>2. Total(fds, o) \in Nat /\ (Total(fds, o) = 0 <=> Refs(fds, o) = {})
    BY TotalType
  <2>3. Sound(ofd[o], IF ofd[o].open THEN Total(fds, o) ELSE 0)
    BY <1>1 DEF IInv, Counted
  <2>4. CASE ofd[o].open
    <3>1. Live(ofd[o], Total(fds, o)) /\ Total(fds, o) # 0
      BY <2>2, <2>3, <2>4 DEF Sound, Gone
    <3> QED
      BY <2>1, <2>2, <2>4, <3>1 DEF Live
  <2>5. CASE ~ofd[o].open
    <3>1. ASSUME NEW u \in References(o) PROVE StdSlot(u[1], u[2])
      <4>1. u[1] \in Procs /\ u[2] \in Slots /\ fds[u[1]][u[2]] = o
        BY DEF References
      <4>2. fds[u[1]][u[2]] # None
        BY <4>1, FileTableAssumption DEF Ofds, None
      <4> QED
        BY <1>1, <2>5, <4>1, <4>2 DEF IInv, Stale
    <3>2. Gone(ofd[o])
      BY <2>3, <2>5 DEF Sound
    <3> QED
      BY <2>5, <3>1, <3>2 DEF Gone
  <2> QED
    BY <2>4, <2>5
<1> QED
  BY <1>1, InvariantHolds, PTL

\* Every holder count of an open pipe end is the number of descriptors its
\* process has of it, and the kernel's is the number of processes traced into
\* it: the promotion of a pipe to lock-free use reads exact counts.
THEOREM HolderMapsAreExact == Spec => []HoldersExact
<1>1. Init => PipeCounts
  BY DEF Init, PipeCounts, Tracked, Unmade
<1>2. IInv /\ PipeCounts /\ [Next]_vars => PipeCounts'
  BY NextHolders
<1>3. IInv /\ PipeCounts => HoldersExact
  BY PipeCountsExact
<1> QED
  BY <1>1, <1>2, <1>3, InvariantHolds, PTL DEF Spec
============================================================================
