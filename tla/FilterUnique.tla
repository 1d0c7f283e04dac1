---------------------------- MODULE FilterUnique ----------------------------
(***************************************************************************)
(* wifi_manager_filter_unique() (src/main/wifi_manager.c): the list of a   *)
(* scan is reduced in place to one record per ssid and authentication      *)
(* mode.  One step is one iteration of one of its two outer loops.         *)
(***************************************************************************)
EXTENDS Naturals, Sequences, FiniteSetsExt

CONSTANTS
  Ssid,     \* names of access points
  Hidden,   \* the empty name: a hidden network, or a cleared record
  Auth,     \* authentication modes, with 0 among them
  Rssi,     \* signal strengths (the sign does not matter), with 0 among them
  MaxAps    \* length of the list (bound)

ASSUME ApAssumption == /\ Hidden \notin Ssid /\ 0 \in Auth /\ 0 \in Rssi
                       /\ Rssi \subseteq Nat /\ MaxAps \in Nat

Record == [ssid : Ssid \cup {Hidden}, auth : Auth, rssi : Rssi]
Zero   == [ssid |-> Hidden, auth |-> 0, rssi |-> 0]

VARIABLES
  scan,       \* history: the list as it was given
  list,       \* aplist
  phase,      \* which loop is running
  i,          \* its counter (the code counts from 0)
  firstFree,  \* first_free; 0 is NULL
  total       \* total_unique, and *aps in the end

vars == <<scan, list, phase, i, firstFree, total>>

TypeOK ==
  /\ scan \in Seq(Record) /\ list \in Seq(Record) /\ Len(list) = Len(scan)
  /\ phase \in {"merge", "compact", "done"}
  /\ i \in 1..(Len(list) + 1)
  /\ firstFree \in 0..Len(list)
  /\ total \in 0..Len(list)

Init ==
  /\ scan \in UNION {[1..n -> Record] : n \in 0..MaxAps}
  /\ list = scan /\ phase = "merge" /\ i = 1 /\ firstFree = 0 /\ total = Len(scan)

\* "identical SSID+authmodes".
Same(a, b) == a.ssid = b.ssid /\ a.auth = b.auth

-----------------------------------------------------------------------------
\* Faulty variant: the record keeps its own signal strength.
MergeKeepsFirst ==
  /\ phase = "merge" /\ i < Len(list)
  /\ LET later == {j \in (i + 1)..Len(list) : Same(list[i], list[j])}
     IN  list' = IF list[i].ssid = Hidden THEN list
                 ELSE [j \in 1..Len(list) |-> IF j \in later THEN Zero ELSE list[j]]
  /\ i' = i + 1
  /\ UNCHANGED <<scan, phase, firstFree, total>>

\* One record of the first loop: the later records like it are cleared, and it
\* keeps the strongest signal of them.
Merge ==
  /\ phase = "merge" /\ i < Len(list)
  /\ LET ap    == list[i]
         later == {j \in (i + 1)..Len(list) : Same(ap, list[j])}
         best  == Max({ap.rssi} \cup {list[j].rssi : j \in later})
     IN  list' = IF ap.ssid = Hidden THEN list
                 ELSE [j \in 1..Len(list) |->
                         CASE j = i        -> [ap EXCEPT !.rssi = best]
                           [] j \in later  -> Zero
                           [] OTHER        -> list[j]]
  /\ i' = i + 1
  /\ UNCHANGED <<scan, phase, firstFree, total>>

\* Faulty variant: the second loop starts one place too early.
MergeEndsEarly ==
  /\ phase = "merge" /\ i >= Len(list)
  /\ phase' = "compact" /\ i' = 0
  /\ UNCHANGED <<scan, list, firstFree, total>>

MergeEnds ==
  /\ phase = "merge" /\ i >= Len(list)
  /\ phase' = "compact" /\ i' = 1
  /\ UNCHANGED <<scan, list, firstFree, total>>

\* Faulty variant: the place just left is taken for the first free one.
CompactToLeft ==
  /\ phase = "compact" /\ i <= Len(list)
  /\ IF list[i].ssid = Hidden
     THEN /\ total' = total - 1
          /\ firstFree' = IF firstFree = 0 THEN i ELSE firstFree
          /\ UNCHANGED list
     ELSE /\ UNCHANGED total
          /\ IF firstFree = 0 THEN UNCHANGED <<list, firstFree>>
             ELSE /\ list' = [list EXCEPT ![firstFree] = list[i], ![i] = Zero]
                  /\ firstFree' = i
  /\ i' = i + 1
  /\ UNCHANGED <<scan, phase>>

\* One record of the second loop: an empty one is counted out, a full one moves
\* to the first free place, if there is one before it.
Compact ==
  /\ phase = "compact" /\ i <= Len(list)
  /\ IF list[i].ssid = Hidden
     THEN /\ total' = total - 1
          /\ firstFree' = IF firstFree = 0 THEN i ELSE firstFree
          /\ UNCHANGED list
     ELSE /\ UNCHANGED total
          /\ IF firstFree = 0 THEN UNCHANGED <<list, firstFree>>
             ELSE LET moved == [list EXCEPT ![firstFree] = list[i], ![i] = Zero]
                  IN  /\ list' = moved
                      /\ firstFree' = Min({j \in 1..Len(list) : moved[j].ssid = Hidden})
  /\ i' = i + 1
  /\ UNCHANGED <<scan, phase>>

\* The length is updated.  (The esp_wifi_deinit() that follows is not about the list.)
CompactEnds ==
  /\ phase = "compact" /\ i > Len(list) /\ phase' = "done"
  /\ UNCHANGED <<scan, list, i, firstFree, total>>

Next == Merge \/ MergeEnds \/ Compact \/ CompactEnds

Spec == Init /\ [][Next]_vars /\ WF_vars(Next)

-----------------------------------------------------------------------------
(* Properties.                                                             *)

\* What the function is for: the named networks of the scan, each once, in the
\* order of their first appearance, with their strongest signal.
IsFirst(n) == scan[n].ssid # Hidden /\ \A m \in 1..(n - 1) : ~Same(scan[m], scan[n])

Strongest(n) ==
  [scan[n] EXCEPT !.rssi = Max({scan[m].rssi : m \in {m \in 1..Len(scan) : Same(scan[m], scan[n])}})]

\* The place of a network among them.
Place(n) == Cardinality({m \in 1..n : IsFirst(m)})

\* The first *aps records the web page is given are exactly those.
FilterCorrect ==
  phase = "done" =>
    /\ total = Place(Len(scan))
    /\ \A n \in 1..Len(scan) : IsFirst(n) => list[Place(n)] = Strongest(n)

\* While records move, none is lost or doubled: first_free is always a free place
\* before the counter, and every place before it is taken.
FreePlaceIsFirst ==
  (phase = "compact" /\ firstFree # 0) =>
    /\ firstFree < i /\ list[firstFree].ssid = Hidden
    /\ \A j \in 1..(firstFree - 1) : list[j].ssid # Hidden

=============================================================================
