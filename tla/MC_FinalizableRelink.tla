----------------------- MODULE MC_FinalizableRelink -----------------------
(***************************************************************************)
(* Two workers; a system-loader finalizable object s, default-loader       *)
(* finalizable objects d1, d2 and a tenured t (listed between them), and   *)
(* a reference object q waiting on the manager's reference list. Root      *)
(* scanning may already have copied any of s, d1, d2, q.                  *)
(***************************************************************************)
EXTENDS FinalizableRelink, TLC

CONSTANTS w1, w2, s, d1, d2, t, q

MCWorkers == {w1, w2}
MCObjects == {s, d1, d2, t, q}
MCFinalizableInit == [k \in Kinds |->
                        CASE k = "system" -> <<s>>
                          [] k = "default" -> <<d1, t, d2>>
                          [] OTHER -> <<q>>]
WorkerSymmetry == Permutations(MCWorkers)

====
