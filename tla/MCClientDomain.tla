--------------------------- MODULE MCClientDomain ---------------------------
(***************************************************************************)
(* Small instances of what a client mirrors and keeps: a domain on a       *)
(* server (ClientDomain), the blob store in which the images of panes are  *)
(* kept (BlobLeases) and the cache (LfuCache).  They share no state.  A    *)
(* behavior is one of a single module, named by part, while the others     *)
(* stay as they were made.                                                 *)
(***************************************************************************)
EXTENDS ClientDomain, BlobLeases, LfuCache, TLC

CONSTANTS k1, k2, k3      \* the keys of the cache

VARIABLE part

\* Two of the keys share a bucket until there are four of them.
Hashes == (k1 :> 0) @@ (k2 :> 1) @@ (k3 :> 3)

ASSUME HandlesAssumption /\ ThreadsAssumption
ASSUME CapsAssumption /\ TicksAssumption /\ HashAssumption

allVars == <<part, vars, blobVars, cacheVars>>

MCInit ==
    /\ part \in {"domain", "blobs", "cache"}
    /\ Init
    /\ BlobInit
    /\ CacheInit
    /\ part # "domain" => Cardinality(RemotePanes) = 1
    /\ part # "cache" => cache.cap = 1

MCNext ==
    \/ part = "domain" /\ Next /\ UNCHANGED <<part, blobVars, cacheVars>>
    \/ part = "blobs" /\ BlobNext /\ UNCHANGED <<part, vars, cacheVars>>
    \/ part = "cache" /\ CacheNext /\ UNCHANGED <<part, vars, blobVars>>

MCSpec == MCInit /\ [][MCNext]_allVars

=============================================================================
