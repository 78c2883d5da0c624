----------------------------- MODULE MC_Broker -----------------------------
(* Small instances of Broker for TLC. *)
EXTENDS Broker, TLC

Pool(name, service, conns) == [name |-> name, service |-> service, conns |-> conns]
Request(service, pool, pri) == [service |-> service, pool |-> pool, pri |-> pri]

(* Two workers on one queue, an STT worker, and a pool whose `conns` was   *)
(* left out of the configuration: it has no worker, counts as congested as *)
(* soon as a job is queued there, and is the first leastLoaded looks at.   *)
UnevenPools == <<Pool("z", "stt", 0), Pool("a", "stt", 1), Pool("t", "tts", 2)>>

(* No tag; a tag that names no pool; tags for the pool that soon is        *)
(* congested, by the service that stays there and by the one that is sent  *)
(* on; and tags for the STT worker's pool, by its service and the other.   *)
TaggedRequests == {Request("tts", "", 0), Request("tts", "x", 9),
                   Request("stt", "z", 0), Request("tts", "z", 0),
                   Request("stt", "a", 0), Request("tts", "a", 0)}

TtsPool == <<Pool("t", "tts", 1)>>
TtsRequests == {Request("tts", "", 0)}

Symmetry == Permutations(Jobs)
=============================================================================
