------------------------------ MODULE MCIngest ------------------------------
(* Three transmissions of one webhook on their way through the handler, and  *)
(* two requests and two edits of a source at its cache.  The two share no    *)
(* state, so either one runs while the other has not begun.                  *)
EXTENDS Sender, SourceCache

senderVars == <<vars, excused>>

MCInit == SenderInit /\ CacheInit

MCNext ==
    \/ CacheInit /\ SenderNext /\ UNCHANGED cacheVars
    \/ SenderInit /\ CacheNext /\ UNCHANGED senderVars

AtCache(A) == SenderInit /\ A /\ UNCHANGED senderVars

\* At the cache handlers finish, requests keep coming, and time passes.
MCSpec ==
    /\ MCInit /\ [][MCNext]_<<senderVars, cacheVars>>
    /\ \A p \in Readers : /\ WF_<<senderVars, cacheVars>>(AtCache(Lookup(p)))
                          /\ WF_<<senderVars, cacheVars>>(AtCache(Miss(p)))
    /\ WF_<<senderVars, cacheVars>>(AtCache(EntryLapses))

=============================================================================
