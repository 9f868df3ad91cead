----------------------------- MODULE MCRateLimit -----------------------------
(***************************************************************************)
(* Small instances of RateLimit, and the property that sums over the       *)
(* history of admitted requests.                                           *)
(***************************************************************************)
EXTENDS RateLimit, Functions

(* Total of a field over the admitted requests of org o selected by S.      *)
SpansOver(S) == SumFunctionOnSet([i \in S |-> admitted[i].spans], S)
BytesOver(S) == SumFunctionOnSet([i \in S |-> admitted[i].bytes], S)
OfOrg(o)     == {i \in 1 .. Len(admitted) : admitted[i].org = o}

(* Between any two admitted requests of an org the spans let through are at *)
(* most one bucket and the refill of the limiter time between them, however *)
(* the wall clock jumps.                                                    *)
BurstBound(o) ==
    \A i, j \in OfOrg(o) : i <= j =>
        SpansOver({k \in OfOrg(o) : i <= k /\ k <= j}) * Second
          <= BucketSize + SpansPerSec * (admitted[j].at - admitted[i].at)

(* The daily budget holds in every window, and no stretch of one day, where *)
(* ever it starts, sees more than two windows' worth of bytes.              *)
DayBound(o) ==
    \A i \in OfOrg(o) :
        /\ BytesOver({k \in OfOrg(o) : admitted[k].window = admitted[i].window})
             <= BytesPerDay
        /\ BytesOver({k \in OfOrg(o) : /\ admitted[k].at >= admitted[i].at
                                       /\ admitted[k].at < admitted[i].at + Day})
             <= 2 * BytesPerDay

(* What an org's bucket lacks, admitted requests took: it is full, or what  *)
(* is missing is exactly what one of them and those after it took and the   *)
(* time since that request has not refilled.                                *)
SpansAccounted(o) ==
    \/ spansBucket[o] = BucketSize
    \/ \E i \in OfOrg(o) :
         SpansOver({k \in OfOrg(o) : i <= k}) * Second + spansBucket[o]
           = BucketSize + SpansPerSec * (spansLastRefill[o] - admitted[i].at)

(* The limiter keeps both limits over every interval, not just from the     *)
(* start, and what is gone of either budget is what was admitted: a denial, *)
(* by either of them, takes nothing of the other (check: "all or nothing    *)
(* per request").                                                           *)
AdmittedWithinLimits ==
    /\ \A o \in Orgs : BurstBound(o) /\ DayBound(o)
    /\ \A o \in known :
        /\ SpansAccounted(o)
        /\ bytesUsedDay[o] = BytesOver({k \in OfOrg(o) : admitted[k].window = bytesDayStartedAt[o]})
=============================================================================
