------------------------- MODULE MCCachingRepository -------------------------
(* What the comments say of CachingRepository that TLC refutes.             *)
EXTENDS CachingRepository

(* "Invalidate so the next list reflects the write" (cache.go:112), "so the *)
(* next read reflects the change" (cache.go:16-17): what is cached is no    *)
(* older than the last update answered with success.                        *)
ListReflectsUpdate == \A k \in Keys : Valid(k) => cache[k].ver >= acked[k]
=============================================================================
