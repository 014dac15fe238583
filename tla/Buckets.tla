------------------------------ MODULE Buckets ------------------------------
(***************************************************************************)
(* The one-second buckets of the statistics, the same in                   *)
(* src/monitoring/stats.py and multi_stats.py: a function from the seconds *)
(* since the start to the counts of that second, of which only the current *)
(* second and the one before are kept.  A count that is missing is zero.   *)
(***************************************************************************)
LOCAL INSTANCE Naturals

CountIn(counts, key) == IF key \in DOMAIN counts THEN counts[key] ELSE 0

Bug_Prune(buckets, index) == [i \in {j \in DOMAIN buckets : j >= index} |-> buckets[i]]

(* Seconds before the last completed one are dropped. *)
Prune(buckets, index) == [i \in {j \in DOMAIN buckets : j + 1 >= index} |-> buckets[i]]

(* One more of key in the second index. *)
Count(buckets, index, key) ==
  LET old == IF index \in DOMAIN buckets THEN buckets[index] ELSE << >>
      new == [k \in DOMAIN old \union {key} |->
                CountIn(old, k) + (IF k = key THEN 1 ELSE 0)]
  IN  Prune([i \in DOMAIN buckets \union {index} |-> IF i = index THEN new ELSE buckets[i]],
            index)

(* The rates of the last completed second; before the first there are none. *)
RatesAt(buckets, index, keys) ==
  [key \in keys |->
     IF index > 0 /\ index - 1 \in DOMAIN buckets
     THEN CountIn(buckets[index - 1], key) ELSE 0]
============================================================================
