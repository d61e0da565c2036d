----------------------------- MODULE MCCacheRing -----------------------------
(***************************************************************************)
(* TLC instances of CacheRing: the smallest ring cache_init makes (16      *)
(* sectors), a file long enough for the filler to wrap and to give up old  *)
(* bytes, and the seeks the demuxer may make.  The file is seen through    *)
(* the cache as FileStream, except that its end may be reported early.     *)
(***************************************************************************)
EXTENDS CacheRing

(* The call the player is in, as FileStream knows it.                      *)
Busy ==
  CASE ppc \in {"prefill", "prefillWait"} -> "opening"
    [] ppc \in {"idle", "reset", "closed", "crashed"} -> ppc
    [] OTHER -> "filling"

File == INSTANCE FileStream WITH busy <- Busy, EarlyEof <- TRUE

(* A demuxer that seeks forward only sees the file in order through the    *)
(* cache, sector by sector, and each of its calls returns.                 *)
ImplementsFile == File!Spec
=============================================================================
