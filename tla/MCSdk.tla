--------------------------------- MODULE MCSdk ---------------------------------
(***************************************************************************)
(* Small instances of the two halves of the client library for TLC: a      *)
(* behaviour is one of the live stream, or one of the calls, chosen at the *)
(* start.                                                                   *)
(***************************************************************************)
EXTENDS StreamClient, ApiContract

VARIABLE half
allVars == <<half, clientVars, callVars>>

SdkInit ==
    /\ half \in {"stream", "calls"} /\ Client!Init /\ CallsInit
    /\ half = "calls" => sdk = "rust" /\ policy = "enabled" /\ server = "up"

StreamHalf == half = "stream" /\ Client!Next /\ UNCHANGED <<half, callVars>>
CallsHalf == half = "calls" /\ CallsNext /\ UNCHANGED <<half, clientVars>>
SdkNext == StreamHalf \/ CallsHalf

(* FairSpec of SdkStream, in its half; the calls promise nothing in time.   *)
SdkSpec ==
    /\ SdkInit /\ [][SdkNext]_allVars
    /\ WF_clientVars(half = "stream" /\ Client!Poll) /\ WF_clientVars(half = "stream" /\ Client!Tick)
    /\ SF_clientVars(half = "stream" /\ Client!Answer) /\ SF_clientVars(half = "stream" /\ Client!Opened)
    /\ WF_clientVars(half = "stream" /\ Client!KeepAliveSent)
    /\ WF_clientVars(half = "stream" /\ Client!GhostGone)

(* Whatever was lost before, a live stream that reconnects streams again as *)
(* long as the server has room for it: ComesBack, in its half.              *)
StreamComesBack == half = "stream" => Client!ComesBack
=============================================================================
