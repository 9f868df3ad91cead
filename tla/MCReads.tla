------------------------------- MODULE MCReads --------------------------------
(* Three traces of one organisation in one project, two of them begun in    *)
(* the same millisecond; the youngest is sensitive, and the span it was     *)
(* sent with names the first.  A second organisation has a key and no       *)
(* trace.                                                                   *)
EXTENDS Reads, TLC

CONSTANTS t1, t2, t3, s1, s2, s3, b1, b2, b3, o1, o2, k1, k2, p1, h1, r1

MCTraceOf   == b1 :> t1 @@ b2 :> t2 @@ b3 :> t3
MCSpan(s, t) == [id |-> s, traceId |-> t]
MCSpansOf   == b1 :> <<MCSpan(s1, t1), MCSpan(s2, t1)>> @@ b2 :> <<>>
               @@ b3 :> <<MCSpan(s3, t1)>>
MCEntries     == UNION {Elements(MCSpansOf[b]) : b \in Bodies}
MCSpanId      == [e \in MCEntries |-> e.id]
MCSpanTraceId == [e \in MCEntries |-> e.traceId]
MCStartedAt == b1 :> -1 @@ b2 :> -1 @@ b3 :> 0
MCStartUs   == b1 :> 10 @@ b2 :> 14 @@ b3 :> 28
MCReplicaOf == h1 :> r1
MCOrgOf     == [t \in {t1, t2, t3} |-> o1]
MCProjectOf == [t \in {t1, t2, t3} |-> p1]
MCKeys      == k1 :> o1 @@ k2 :> o2
MCAskedLimits == {-1, 0, 4}
MCBearers   == o1 :> k1
=============================================================================
