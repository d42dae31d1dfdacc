--------------------------- MODULE MCStorageCleanup ---------------------------
(* Histories of up to four runs; see README.md for what each one brings about. *)
EXTENDS StorageCleanup

MCTwin == [r \in Runs |-> IF r = 2 THEN 1 ELSE None]

P(k, l, m, g) == [kind |-> k, local |-> l, remote |-> m, guard |-> g]
Good == P("complete", "intact", "complete", "none")
LocalOnly == P("complete", "intact", "none", "none")
Removed == P("complete", "intact", "removed", "none")
Evicted == P("complete", "none", "complete", "none")
Absent == P("none", "none", "none", "none")
Temp == P("failed", "temp", "none", "none")
Rotten == P("complete", "intact", "rotten", "none")
Damaged == P("complete", "damaged", "none", "none")
Physfail == P("physfail", "intact", "logical", "none")
Partial == P("partial", "intact", "none", "none")
Pinned == P("complete", "intact", "none", "pinned")

MCHistories == {
  <<Good, Good, Good, Absent>>,
  <<Good, Temp, Good, Good>>,
  <<Good, Partial, Good, Absent>>,
  <<LocalOnly, Good, Good, Absent>>,
  <<Damaged, Good, Good, Good>>,
  <<Physfail, Rotten, Good, Good>>,
  <<Evicted, Evicted, LocalOnly, Absent>>,
  <<Pinned, Good, Good, Good>>,
  <<Removed, Good, Good, Good>>,
  <<Damaged, Damaged, Temp, Damaged>>,
  <<Damaged, Damaged, Good, Good>>}
Healthy == {<<Good, Good, Good, Absent>>}
OldDamaged == {<<Damaged, Good, Good, Absent>>}
MCCaptures == {Good, LocalOnly}
=============================================================================
