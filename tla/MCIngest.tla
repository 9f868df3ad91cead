------------------------------- MODULE MCIngest -------------------------------
(***************************************************************************)
(* Small instances of Ingest: a trace of two spans, the same trace sent    *)
(* again with a changed payload, and a trace that is already as old as the *)
(* retention period when it arrives, shares the id of a span, and has a    *)
(* span that names the other trace.                                        *)
(***************************************************************************)
EXTENDS Ingest, TLC

CONSTANTS first, edited, late, t1, t2, s1, s2, s3, s4, h1, h2, r1, r2

MCTraceOf   == (first :> t1) @@ (edited :> t1) @@ (late :> t2)
MCSpan(b, s, t) == [by |-> b, id |-> s, traceId |-> t]
MCSpansOf   ==
    (first :> <<MCSpan(first, s1, t1), MCSpan(first, s2, t1)>>) @@
    (edited :> <<MCSpan(edited, s2, t1), MCSpan(edited, s3, t1)>>) @@
    (late :> <<MCSpan(late, s3, t2), MCSpan(late, s4, t1)>>)
MCEntries     == UNION {Elements(MCSpansOf[b]) : b \in Bodies}
MCSpanId      == [e \in MCEntries |-> e.id]
MCSpanTraceId == [e \in MCEntries |-> e.traceId]
MCStartedAt == (first :> 0) @@ (edited :> 0) @@ (late :> -1)
MCReplicaOf == (h1 :> r1) @@ (h2 :> r2)
=============================================================================
