--------------------------- MODULE MC_Lifecycle ---------------------------
(* A small instance of Lifecycle for TLC. *)
EXTENDS Lifecycle

(* Two workers on one queue. *)
TtsPool == <<[name |-> "t", service |-> "tts", conns |-> 2]>>

(* A job for the pool, and one for a service that has none. *)
TtsRequests == {[service |-> "tts", pool |-> "", pri |-> 0],
                [service |-> "llm", pool |-> "", pri |-> 0]}
=============================================================================
