---------------------------- MODULE MCSemaphore -----------------------------
(* Five calls over two slots: three may wait at once, so a queue of three  *)
(* can lose its head, its middle or its tail to an abort.  Signal s1 is    *)
(* shared by two calls, s2 belongs to one, and two calls pass none.        *)
EXTENDS Semaphore

CONSTANTS c1, c2, c3, c4, c5, s1, s2

MCSignalOf ==
  [c \in Call |-> CASE c \in {c1, c4} -> s1
                    [] c = c3 -> s2
                    [] OTHER -> NoSignal]
=============================================================================
