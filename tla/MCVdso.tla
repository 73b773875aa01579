------------------------------- MODULE MCVdso --------------------------------
(* Vdso on a small page: what setpgid and setsid change, and what getpgid    *)
(* and getsid read.                                                          *)
EXTENDS Vdso

MCChanges == {{"pgid"}, {"pgid", "sid"}}
MCSnapshots == {{"pid", "pgid"}, {"pgid", "sid"}}
=============================================================================
