------------------------- MODULE MenuTrackingProofs -------------------------
(***************************************************************************)
(* Proofs about MenuTracking, for every set of businesses, every order of  *)
(* their providers and any number of edits.                                *)
(***************************************************************************)
EXTENDS MenuTracking, TLAPS

(***************************************************************************)
(* The inductive invariant, by business.                                   *)
(***************************************************************************)

\* A run knows what it has read as long as the menu is not edited, works on the
\* venues it reaches only, and a venue it has patched shows what it sent.
RunOK(b) ==
  /\ run[b].at = "idle" => run[b] = NoRun
  /\ run[b].at # "venues" => run[b].jobs = NoJobs
  /\ run[b].at = "menu" => run[b].claim = NoClaim
  /\ run[b].at = "options" => ~ run[b].claim.values
  /\ run[b].claim.items => run[b].items = ItemEnabled(menu[b])
  /\ run[b].claim.values => run[b].values = ValueSent(menu[b])
  /\ \A v \in Venues :
       /\ run[b].jobs[v].main # "idle" => v \in Reached(b)
       /\ run[b].jobs[v].main \in {"options", "success"} /\ run[b].jobs[v].side = "idle"
            => venue[v].item = run[b].items
       /\ run[b].jobs[v].main = "success" /\ run[b].values # "unsent"
            => venue[v].value = run[b].values

Synced(b) ==
  \A v \in Reached(b) :
    /\ claim[v].items => venue[v].item = ItemEnabled(menu[b])
    /\ claim[v].values /\ menu[b].option => venue[v].value = OnOff(menu[b].value)

Stranded(b) ==
  row[b].processing /\ row[b].time \notin {"ahead", "due"} /\ ~ InFlight(b) /\ b \notin excused

BusinessInv(b) ==
  /\ RunOK(b) /\ Synced(b) /\ ~ Stranded(b)
  /\ InFlight(b) => row[b] # NoRow

IInv == TypeOK /\ \A b \in Businesses : BusinessInv(b)

(***************************************************************************)
(* A step is about one business: what holds of the others stays.           *)
(***************************************************************************)

LEMMA OfOneBusiness ==
  /\ \A b \in Businesses : Reached(b) \subseteq Venues
  /\ \A b, c \in Businesses : b # c => Reached(b) \intersect Reached(c) = {}
<1>1. ASSUME NEW b \in Businesses, NEW v \in Reached(b)
      PROVE  \E i \in 1..Len(Providers[b]) : Providers[b][i] = v
  BY DEF Reached
<1>. QED  BY <1>1, MenuTrackingAssumption DEF Reached

Leaves(c) ==
  /\ menu'[c] = menu[c] /\ row'[c] = row[c] /\ run'[c] = run[c]
  /\ c \in excused' <=> c \in excused
  /\ \A v \in Reached(c) : venue'[v] = venue[v] /\ claim'[v] = claim[v]

LEMMA LeftAlone ==
  ASSUME NEW c \in Businesses, Leaves(c), BusinessInv(c)
  PROVE  BusinessInv(c)'
<1>1. RunOK(c)'
  BY DEF BusinessInv, RunOK, Leaves, ItemEnabled, ValueSent, OnOff
<1>2. Synced(c)'
  BY DEF BusinessInv, Synced, Leaves, ItemEnabled, OnOff
<1>. QED  BY <1>1, <1>2 DEF BusinessInv, Stranded, InFlight, Leaves

LEMMA OneBusiness ==
  ASSUME IInv, NEW b \in Businesses, TypeOK', BusinessInv(b)',
         \A c \in Businesses \ {b} : Leaves(c)
  PROVE  IInv'
BY LeftAlone DEF IInv

LEMMA NoRunTyped ==
  /\ NoRun \in Run /\ NoRun.at = "idle" /\ NoRun.claim = NoClaim /\ NoRun.jobs = NoJobs
  /\ \A v \in Venues : NoJobs[v].main = "idle" /\ NoJobs[v].side = "idle"
  /\ ~ NoClaim.items /\ ~ NoClaim.values
  /\ NoClaim \in [items : BOOLEAN, values : BOOLEAN]
BY DEF NoRun, NoJobs, NoClaim, Run, MainSteps, SideSteps, Values

LEMMA RowTyped ==
  /\ \A r \in Row : r # NoRow
  /\ NoRow.processing = FALSE
BY DEF Row, NoRow, Times

(***************************************************************************)
(* The steps of Ordering, the devices and the marking job.                 *)
(***************************************************************************)

LEMMA EditStep ==
  ASSUME IInv, NEW b \in Businesses, NEW field \in Edited, Edit(b, field)
  PROVE  IInv'
<1>1. /\ TypeOK /\ BusinessInv(b) /\ run[b] \in Run
      /\ UNCHANGED <<venue, row, marking, excused>>
  BY DEF IInv, Edit, TypeOK
<1>. USE <1>1
<1>2. /\ menu' \in [Businesses -> [category : BOOLEAN, product : BOOLEAN, option : BOOLEAN, value : BOOLEAN]]
      /\ \A c \in Businesses \ {b} : menu'[c] = menu[c]
  <2> DEFINE Menus == [category : BOOLEAN, product : BOOLEAN, option : BOOLEAN, value : BOOLEAN]
  <2> DEFINE m == [menu[b] EXCEPT ![field] = ~@]
  <2>1. field \in {"category", "product", "option", "value"} /\ menu[b] \in Menus
    BY MenuTrackingAssumption DEF TypeOK
  <2>2. m \in Menus
    <3>1. CASE field = "category"  BY <2>1, <3>1
    <3>2. CASE field = "product"  BY <2>1, <3>2
    <3>3. CASE field = "option"  BY <2>1, <3>3
    <3>4. CASE field = "value"  BY <2>1, <3>4
    <3>. QED  BY <2>1, <3>1, <3>2, <3>3, <3>4
  <2>3. menu' = [menu EXCEPT ![b] = m]
    BY DEF Edit
  <2> HIDE DEF m
  <2>. QED  BY <2>2, <2>3 DEF TypeOK
<1>3. /\ run' \in [Businesses -> Run]
      /\ run'[b] = [run[b] EXCEPT !.claim = NoClaim]
      /\ \A c \in Businesses \ {b} : run'[c] = run[c]
  BY NoRunTyped DEF Edit, TypeOK, Run
<1>4. /\ run'[b].at = run[b].at /\ run'[b].jobs = run[b].jobs /\ run'[b].claim = NoClaim
      /\ run'[b].items = run[b].items /\ run'[b].values = run[b].values
  BY <1>3 DEF Run
<1>5. /\ claim' \in [Venues -> [items : BOOLEAN, values : BOOLEAN]]
      /\ \A v \in Reached(b) : claim'[v] = NoClaim
      /\ \A v \in Venues : v \notin Reached(b) => claim'[v] = claim[v]
  BY NoRunTyped, OfOneBusiness DEF Edit, TypeOK
<1>6. TypeOK'
  BY <1>2, <1>3, <1>5, MenuTrackingAssumption DEF TypeOK, Edit
<1>7. ASSUME NEW c \in Businesses \ {b} PROVE Leaves(c)
  BY <1>2, <1>3, <1>5, OfOneBusiness DEF Leaves
<1>8. RunOK(b)'
  <2>1. run[b] = NoRun => run'[b] = NoRun
    BY <1>3, NoRunTyped, ZenonT(30) DEF NoRun
  <2>. QED  BY <2>1, <1>4, NoRunTyped DEF BusinessInv, RunOK
<1>9. Synced(b)'
  BY <1>5, NoRunTyped DEF Synced
<1>10. BusinessInv(b)'
  BY <1>4, <1>8, <1>9 DEF BusinessInv, Stranded, InFlight
<1>. QED  BY <1>6, <1>7, <1>10, OneBusiness

\* A step that changes the row of one business and nothing of its run or its venues.
LEMMA RowStep ==
  ASSUME IInv, NEW b \in Businesses, NEW r \in Row,
         row' = [row EXCEPT ![b] = r],
         marking' \subseteq marking,
         excused' \in SUBSET Businesses,
         \A c \in Businesses \ {b} : c \in excused' <=> c \in excused,
         r.processing => r.time \in {"ahead", "due"} \/ InFlight(b) \/ b \in excused',
         UNCHANGED <<menu, venue, run, edits, claim>>
  PROVE  IInv'
<1>1. /\ TypeOK /\ BusinessInv(b)
      /\ row' \in [Businesses -> Row \union {NoRow}] /\ row'[b] = r /\ r # NoRow
      /\ \A c \in Businesses \ {b} : row'[c] = row[c]
  BY RowTyped DEF IInv, TypeOK
<1>2. TypeOK'
  BY <1>1 DEF TypeOK
<1>3. ASSUME NEW c \in Businesses \ {b} PROVE Leaves(c)
  BY <1>1 DEF Leaves
<1>4. RunOK(b)'
  BY <1>1 DEF BusinessInv, RunOK, ItemEnabled, ValueSent, OnOff
<1>5. Synced(b)'
  BY <1>1 DEF BusinessInv, Synced, ItemEnabled, OnOff
<1>6. BusinessInv(b)'
  BY <1>1, <1>4, <1>5 DEF BusinessInv, Stranded, InFlight
<1>. QED  BY <1>2, <1>3, <1>6, OneBusiness

LEMMA RequestStep ==
  ASSUME IInv, NEW b \in Businesses, NEW time \in Times, Request(b, time)
  PROVE  IInv'
<1> DEFINE r == IF row[b] = NoRow
                THEN [time |-> time, processing |-> FALSE, onCooldown |-> FALSE, recent |-> TRUE]
                ELSE [row[b] EXCEPT !.time = time]
<1>1. row[b] = NoRow \/ row[b] \in Row
  BY DEF IInv, TypeOK
<1>2. r \in Row /\ r.time = time
  BY <1>1 DEF Row
<1>3. /\ row' = [row EXCEPT ![b] = r]
      /\ excused' = IF time = "passed" THEN excused \union {b} ELSE excused \ {b}
      /\ excused \subseteq Businesses
  BY DEF Request, IInv, TypeOK
<1> HIDE DEF r
<1>. QED  BY <1>2, <1>3, RowStep DEF Request, Times

LEMMA ElapseStep ==
  ASSUME IInv, NEW b \in Businesses, Elapse(b)
  PROVE  IInv'
<1> DEFINE r == [row[b] EXCEPT !.time = IF @ = "ahead" THEN "due" ELSE "passed"]
<1>1. row[b] \in Row /\ excused \subseteq Businesses
  BY DEF IInv, TypeOK, Elapse, NoRow
<1>2. r \in Row /\ (r.time \in {"ahead", "due"} \/ row[b].time = "due")
  BY <1>1 DEF Row, Times, Elapse
<1>3. row' = [row EXCEPT ![b] = r]
  BY <1>1 DEF Elapse, IInv, TypeOK
<1> HIDE DEF r
<1>. QED  BY <1>1, <1>2, <1>3, RowStep DEF Elapse

LEMMA AgeStep ==
  ASSUME IInv, NEW b \in Businesses, Age(b)
  PROVE  IInv'
<1> DEFINE r == [row[b] EXCEPT !.recent = FALSE]
<1>1. row[b] \in Row /\ excused \subseteq Businesses
  BY DEF IInv, TypeOK, Age, NoRow
<1>2. r \in Row /\ r.time = row[b].time /\ r.processing = row[b].processing
  BY <1>1 DEF Row
<1>3. row' = [row EXCEPT ![b] = r]
  BY <1>1 DEF Age, IInv, TypeOK
<1>4. row[b].time \in Times
  BY <1>1 DEF Row
<1> HIDE DEF r
<1>. QED  BY <1>1, <1>2, <1>3, <1>4, RowStep DEF Age, IInv, BusinessInv, Stranded

LEMMA MarkStep ==
  ASSUME IInv, NEW b \in Businesses, Mark(b)
  PROVE  IInv'
<1> DEFINE r == [row[b] EXCEPT !.processing = TRUE]
<1>1. row[b] \in Row /\ excused \subseteq Businesses
  BY DEF IInv, TypeOK, Mark
<1>2. r \in Row /\ r.time = row[b].time /\ row[b].time \in Times
  BY <1>1 DEF Row
<1>3. row' = [row EXCEPT ![b] = r]
  BY <1>1 DEF Mark, IInv, TypeOK
<1> HIDE DEF r
<1>. QED  BY <1>1, <1>2, <1>3, RowStep DEF Mark, Times

\* FireMark and MarkFails change the marks alone.
LEMMA MarksStep ==
  ASSUME IInv, marking' \subseteq {b \in Businesses : row[b] # NoRow},
         UNCHANGED <<menu, venue, row, run, edits, claim, excused>>
  PROVE  IInv'
<1>1. TypeOK'
  BY DEF IInv, TypeOK
<1>2. \A c \in Businesses : Leaves(c)
  BY DEF Leaves
<1>. QED  BY <1>1, <1>2, LeftAlone DEF IInv

(***************************************************************************)
(* The steps of a synchronisation up to its venues.                        *)
(***************************************************************************)

\* A step that changes the run of one business and nothing that Wolt shows.
LEMMA ReadStep ==
  ASSUME IInv, NEW b \in Businesses, NEW n \in Run,
         run' = [run EXCEPT ![b] = n],
         row[b] # NoRow,
         excused' \in SUBSET Businesses,
         \A c \in Businesses \ {b} : c \in excused' <=> c \in excused,
         n.at # "idle" \/ b \in excused',
         RunOK(b)',
         UNCHANGED <<menu, venue, row, marking, edits, claim>>
  PROVE  IInv'
<1>1. /\ TypeOK /\ BusinessInv(b)
      /\ run' \in [Businesses -> Run] /\ run'[b] = n
      /\ \A c \in Businesses \ {b} : run'[c] = run[c]
  BY DEF IInv, TypeOK
<1>2. TypeOK'
  BY <1>1 DEF TypeOK
<1>3. ASSUME NEW c \in Businesses \ {b} PROVE Leaves(c)
  BY <1>1 DEF Leaves
<1>4. BusinessInv(b)'
  BY <1>1 DEF BusinessInv, Synced, Stranded, InFlight, ItemEnabled, OnOff
<1>. QED  BY <1>2, <1>3, <1>4, OneBusiness

LEMMA RunEnds ==
  ASSUME NEW b \in Businesses, run'[b] = NoRun
  PROVE  RunOK(b)'
BY NoRunTyped DEF RunOK

LEMMA FireSyncStep ==
  ASSUME IInv, NEW b \in Businesses, FireSync(b)
  PROVE  IInv'
<1> DEFINE n == [NoRun EXCEPT !.at = "menu"]
<1>1. /\ TypeOK /\ BusinessInv(b) /\ run[b] = NoRun /\ row[b] # NoRow /\ excused \subseteq Businesses
      /\ UNCHANGED <<menu, venue, row, marking, edits, claim, excused>>
  BY DEF IInv, TypeOK, FireSync, InFlight, BusinessInv, RunOK, NoRow
<1>2. /\ n \in Run /\ n.at = "menu" /\ n.claim = NoClaim /\ n.jobs = NoJobs
      /\ run' = [run EXCEPT ![b] = n]
  BY <1>1, NoRunTyped DEF FireSync, Run, NoRun
<1> HIDE DEF n
<1>3. run'[b] = n
  BY <1>1, <1>2 DEF TypeOK
<1>4. RunOK(b)'
  BY <1>2, <1>3, NoRunTyped DEF RunOK
<1>. QED  BY <1>1, <1>2, <1>4, ReadStep

LEMMA ReadMenuStep ==
  ASSUME IInv, NEW b \in Businesses, ReadMenu(b)
  PROVE  IInv'
<1> DEFINE n == [run[b] EXCEPT !.at = "options", !.items = ItemEnabled(menu[b]), !.claim.items = TRUE]
<1>1. /\ TypeOK /\ BusinessInv(b) /\ run[b] \in Run /\ run[b].at = "menu"
      /\ row[b] # NoRow /\ excused \subseteq Businesses
      /\ run[b].claim = NoClaim /\ run[b].jobs = NoJobs
      /\ UNCHANGED <<menu, venue, row, marking, edits, claim, excused>>
  BY DEF IInv, TypeOK, ReadMenu, BusinessInv, InFlight, RunOK
<1>2. /\ n \in Run /\ n.at = "options" /\ n.items = ItemEnabled(menu[b])
      /\ n.claim.values = FALSE /\ n.jobs = NoJobs
      /\ run' = [run EXCEPT ![b] = n]
  <2>1. ItemEnabled(menu[b]) \in BOOLEAN
    BY DEF ItemEnabled
  <2>. QED  BY <1>1, <2>1, NoRunTyped DEF ReadMenu, Run, TypeOK, NoClaim
<1> HIDE DEF n
<1>3. run'[b] = n
  BY <1>1, <1>2 DEF TypeOK
<1>4. RunOK(b)'
  BY <1>1, <1>2, <1>3, NoRunTyped DEF RunOK, ItemEnabled
<1>. QED  BY <1>1, <1>2, <1>4, ReadStep

LEMMA ReadOptionsStep ==
  ASSUME IInv, NEW b \in Businesses, ReadOptions(b)
  PROVE  IInv'
<1> DEFINE jobs == [v \in Venues |-> [NoJobs[v] EXCEPT !.main = IF v \in Reached(b) THEN "items" ELSE @]]
<1> DEFINE n == [run[b] EXCEPT !.at = "venues", !.values = ValueSent(menu[b]),
                               !.claim.values = TRUE, !.jobs = jobs]
<1>1. /\ TypeOK /\ BusinessInv(b) /\ run[b] \in Run /\ run[b].at = "options"
      /\ row[b] # NoRow /\ excused \subseteq Businesses
      /\ UNCHANGED <<menu, venue, row, marking, edits, claim>>
      /\ excused' = IF Reached(b) = {} THEN excused \union {b} ELSE excused
      /\ run' = [run EXCEPT ![b] = Settled(n)]
  BY DEF IInv, TypeOK, ReadOptions, BusinessInv, InFlight
<1>2. /\ jobs \in [Venues -> [main : MainSteps, side : SideSteps]]
      /\ \A v \in Venues : /\ jobs[v].main = IF v \in Reached(b) THEN "items" ELSE "idle"
                           /\ jobs[v].side = "idle"
  BY DEF NoJobs, MainSteps, SideSteps
<1> HIDE DEF jobs
<1>3. /\ n \in Run /\ n.at = "venues" /\ n.values = ValueSent(menu[b]) /\ n.jobs = jobs
      /\ n.items = run[b].items /\ n.claim.items = run[b].claim.items
  <2>1. ValueSent(menu[b]) \in Values
    BY DEF ValueSent, OnOff, Values
  <2>. QED  BY <1>1, <1>2, <2>1 DEF Run
<1>4. Resting(jobs) => Reached(b) = {}
  BY <1>2, OfOneBusiness DEF Resting
<1> HIDE DEF n
<1>5. /\ Settled(n) \in Run /\ run'[b] = Settled(n)
      /\ Settled(n) = n \/ (Settled(n) = NoRun /\ Resting(jobs))
  BY <1>1, <1>3, NoRunTyped DEF Settled, TypeOK
<1>6. RunOK(b)'
  <2>1. CASE Settled(n) = NoRun
    BY <2>1, <1>5, RunEnds
  <2>2. CASE Settled(n) = n
    <3>1. run[b].claim.items => run[b].items = ItemEnabled(menu[b])
      BY <1>1 DEF BusinessInv, RunOK
    <3>. QED  BY <2>2, <3>1, <1>1, <1>2, <1>3, <1>5 DEF RunOK, ItemEnabled, ValueSent, OnOff
  <2>. QED  BY <2>1, <2>2, <1>5
<1>7. Settled(n).at # "idle" \/ b \in excused'
  BY <1>1, <1>3, <1>4, <1>5
<1>. QED  BY <1>1, <1>5, <1>6, <1>7, ReadStep

LEMMA ReadFailsStep ==
  ASSUME IInv, NEW b \in Businesses, ReadFails(b)
  PROVE  IInv'
<1>1. /\ TypeOK /\ row[b] # NoRow /\ excused \subseteq Businesses
  BY DEF IInv, TypeOK, ReadFails, BusinessInv, InFlight
<1>2. RunOK(b)'
  BY <1>1, RunEnds DEF ReadFails, TypeOK
<1>. QED  BY <1>1, <1>2, NoRunTyped, ReadStep DEF ReadFails

(***************************************************************************)
(* The steps of a synchronisation at a venue.                              *)
(***************************************************************************)

\* The job of the run of b for the venue v becomes j.
Becomes(b, v, j) == run' = [run EXCEPT ![b] = Settled([run[b] EXCEPT !.jobs[v] = j])]

\* Such a step.  What it has put up at Wolt
\* is what the run sends, and its end leaves no row stranded.
LEMMA JobStep ==
  ASSUME IInv, NEW b \in Businesses, NEW v \in Venues,
         NEW j \in [main : MainSteps, side : SideSteps],
         run[b].at = "venues",
         Becomes(b, v, j),
         UNCHANGED <<menu, marking, edits>>,
         row' \in [Businesses -> Row \union {NoRow}], row'[b] # NoRow,
         \A c \in Businesses \ {b} : row'[c] = row[c],
         excused' \in SUBSET Businesses,
         \A c \in Businesses \ {b} : c \in excused' <=> c \in excused,
         venue' \in [Venues -> [item : BOOLEAN, value : {"on", "off"}]],
         claim' \in [Venues -> [items : BOOLEAN, values : BOOLEAN]],
         \A w \in Venues \ {v} : venue'[w] = venue[w] /\ claim'[w] = claim[w],
         v \in Reached(b) \/ (venue'[v] = venue[v] /\ claim'[v] = claim[v]),
         j.main # "idle" => v \in Reached(b),
         j.main \in {"options", "success"} /\ j.side = "idle" => venue'[v].item = run[b].items,
         j.main = "success" /\ run[b].values # "unsent" => venue'[v].value = run[b].values,
         v \in Reached(b) =>
            /\ claim'[v].items => venue'[v].item = ItemEnabled(menu[b])
            /\ claim'[v].values /\ menu[b].option => venue'[v].value = OnOff(menu[b].value),
         j.main = "idle" /\ j.side \in {"idle", "done"} =>
            ~ row'[b].processing \/ row'[b].time \in {"ahead", "due"} \/ b \in excused'
  PROVE  IInv'
<1> DEFINE n == [run[b] EXCEPT !.jobs[v] = j]
<1>1. /\ TypeOK /\ BusinessInv(b) /\ run[b] \in Run
  BY DEF IInv, TypeOK
<1>2. /\ n \in Run /\ n.at = "venues" /\ n.items = run[b].items /\ n.values = run[b].values
      /\ n.claim = run[b].claim /\ n.jobs[v] = j
      /\ \A w \in Venues \ {v} : n.jobs[w] = run[b].jobs[w]
  BY <1>1 DEF Run
<1> HIDE DEF n
<1>3. /\ Settled(n) \in Run /\ run'[b] = Settled(n) /\ run' \in [Businesses -> Run]
      /\ \A c \in Businesses \ {b} : run'[c] = run[c]
      /\ Settled(n) = n \/ (Settled(n) = NoRun /\ Resting(n.jobs))
  BY <1>1, <1>2, NoRunTyped DEF Becomes, Settled, TypeOK, n
<1>4. TypeOK'
  BY <1>1, <1>3 DEF TypeOK
<1>5. ASSUME NEW c \in Businesses \ {b} PROVE Leaves(c)
  <2>1. Reached(c) \subseteq Venues /\ Reached(c) \intersect Reached(b) = {}
    BY OfOneBusiness
  <2>. QED  BY <2>1, <1>3 DEF Leaves
<1>6. RunOK(b)'
  <2>1. CASE Settled(n) = NoRun
    BY <2>1, <1>3, RunEnds
  <2>2. CASE Settled(n) = n
    <3>1. RunOK(b)
      BY <1>1 DEF BusinessInv
    <3>2. /\ run'[b] = n
          /\ run[b].claim.items => run[b].items = ItemEnabled(menu[b])
          /\ run[b].claim.values => run[b].values = ValueSent(menu[b])
      BY <2>2, <3>1, <1>3 DEF RunOK
    <3>3. ASSUME NEW w \in Venues
          PROVE  /\ n.jobs[w].main # "idle" => w \in Reached(b)
                 /\ n.jobs[w].main \in {"options", "success"} /\ n.jobs[w].side = "idle"
                      => venue'[w].item = n.items
                 /\ n.jobs[w].main = "success" /\ n.values # "unsent"
                      => venue'[w].value = n.values
      <4>1. CASE w = v
        BY <4>1, <1>2
      <4>2. CASE w # v
        BY <4>2, <3>1, <1>2 DEF RunOK
      <4>. QED  BY <4>1, <4>2
    <3>. QED  BY <3>2, <3>3, <1>2 DEF RunOK, ItemEnabled, ValueSent, OnOff
  <2>. QED  BY <2>1, <2>2, <1>3
<1>7. Synced(b)'
  <2>1. ASSUME NEW w \in Reached(b)
        PROVE  /\ claim'[w].items => venue'[w].item = ItemEnabled(menu[b])
               /\ claim'[w].values /\ menu[b].option => venue'[w].value = OnOff(menu[b].value)
    <3>1. w = v \/ w \in Venues \ {v}
      BY OfOneBusiness
    <3>. QED  BY <3>1, <1>1 DEF BusinessInv, Synced
  <2>. QED  BY <2>1 DEF Synced, ItemEnabled, OnOff
<1>8. ~ Stranded(b)'
  <2>1. Resting(n.jobs) => j.main = "idle" /\ j.side \in {"idle", "done"}
    BY <1>2 DEF Resting
  <2>. QED  BY <2>1, <1>2, <1>3 DEF Stranded, InFlight
<1>9. BusinessInv(b)'
  BY <1>6, <1>7, <1>8 DEF BusinessInv
<1>. QED  BY <1>4, <1>5, <1>9, OneBusiness

\* Where a step of a job finds its run.
LEMMA JobFacts ==
  ASSUME IInv, NEW b \in Businesses, NEW v \in Venues,
         run[b].jobs[v].main # "idle" \/ run[b].jobs[v].side # "idle"
  PROVE  /\ TypeOK /\ BusinessInv(b) /\ RunOK(b) /\ Synced(b)
         /\ run[b] \in Run /\ run[b].jobs[v] \in [main : MainSteps, side : SideSteps]
         /\ run[b].at = "venues" /\ row[b] \in Row
         /\ run[b].jobs[v].main # "idle" => v \in Reached(b)
         /\ excused \subseteq Businesses
<1>1. TypeOK /\ BusinessInv(b) /\ RunOK(b) /\ Synced(b) /\ run[b] \in Run
  BY DEF IInv, TypeOK, BusinessInv
<1>2. run[b].at = "venues"
  BY <1>1, NoRunTyped DEF RunOK
<1>. QED  BY <1>1, <1>2 DEF TypeOK, BusinessInv, InFlight, Run, RunOK

\* The job that Goes leaves behind it.
LEMMA GoesMain ==
  ASSUME IInv, NEW b \in Businesses, NEW v \in Venues, NEW step \in MainSteps,
         run[b].jobs[v].main # "idle" \/ run[b].jobs[v].side # "idle",
         Goes(b, v, "main", step)
  PROVE  \E j \in [main : MainSteps, side : SideSteps] :
            /\ j.main = step /\ j.side = run[b].jobs[v].side
            /\ Becomes(b, v, j)
<1> DEFINE j == [run[b].jobs[v] EXCEPT !["main"] = step]
<1>1. run[b].jobs[v] \in [main : MainSteps, side : SideSteps]
  BY JobFacts
<1>2. j \in [main : MainSteps, side : SideSteps] /\ j.main = step /\ j.side = run[b].jobs[v].side
  BY <1>1
<1>3. Becomes(b, v, j)
  BY DEF Goes, Becomes
<1> HIDE DEF j
<1>. QED  BY <1>2, <1>3

LEMMA GoesSide ==
  ASSUME IInv, NEW b \in Businesses, NEW v \in Venues, NEW step \in SideSteps,
         run[b].jobs[v].main # "idle" \/ run[b].jobs[v].side # "idle",
         Goes(b, v, "side", step)
  PROVE  \E j \in [main : MainSteps, side : SideSteps] :
            /\ j.main = run[b].jobs[v].main /\ j.side = step
            /\ Becomes(b, v, j)
<1> DEFINE j == [run[b].jobs[v] EXCEPT !["side"] = step]
<1>1. run[b].jobs[v] \in [main : MainSteps, side : SideSteps]
  BY JobFacts
<1>2. j \in [main : MainSteps, side : SideSteps] /\ j.main = run[b].jobs[v].main /\ j.side = step
  BY <1>1
<1>3. Becomes(b, v, j)
  BY DEF Goes, Becomes
<1> HIDE DEF j
<1>. QED  BY <1>2, <1>3
LEMMA ShowsTyped ==
  ASSUME TypeOK, NEW v \in Venues, NEW item \in BOOLEAN, NEW value \in Values,
         ShowsAt(v, item, value)
  PROVE  /\ venue' \in [Venues -> [item : BOOLEAN, value : {"on", "off"}]]
         /\ claim' \in [Venues -> [items : BOOLEAN, values : BOOLEAN]]
         /\ venue'[v].item = item
         /\ venue'[v].value = IF value = "unsent" THEN venue[v].value ELSE value
         /\ ~ claim'[v].items /\ ~ claim'[v].values
         /\ \A w \in Venues \ {v} : venue'[w] = venue[w] /\ claim'[w] = claim[w]
<1> DEFINE n == [item |-> item, value |-> IF value = "unsent" THEN venue[v].value ELSE value]
<1>1. n \in [item : BOOLEAN, value : {"on", "off"}]
  BY DEF TypeOK, Values
<1>2. venue' = [venue EXCEPT ![v] = n] /\ claim' = [claim EXCEPT ![v] = NoClaim]
  BY DEF ShowsAt
<1>. QED  BY <1>1, <1>2, NoRunTyped DEF TypeOK

\* What a run sends.
LEMMA Sent ==
  ASSUME TypeOK, NEW b \in Businesses, NEW v \in Venues
  PROVE  run[b].items \in BOOLEAN /\ run[b].values \in Values /\ venue[v].item \in BOOLEAN
BY DEF TypeOK, Run

LEMMA PatchItemsStep ==
  ASSUME IInv, NEW b \in Businesses, NEW v \in Venues, PatchItems(b, v)
  PROVE  IInv'
<1>1. /\ run[b].jobs[v].main = "items" /\ ShowsAt(v, run[b].items, "unsent")
      /\ Goes(b, v, "main", "options")
      /\ UNCHANGED <<menu, row, marking, edits, excused>>
  BY DEF PatchItems
<1>0. PICK j \in [main : MainSteps, side : SideSteps] :
        /\ j.main = "options" /\ j.side = run[b].jobs[v].side
        /\ Becomes(b, v, j)
  BY <1>1, GoesMain DEF MainSteps
<1>2. /\ TypeOK /\ run[b].at = "venues" /\ row[b] \in Row /\ v \in Reached(b)
      /\ excused \subseteq Businesses
  BY <1>1, JobFacts
<1>3. /\ venue' \in [Venues -> [item : BOOLEAN, value : {"on", "off"}]]
      /\ claim' \in [Venues -> [items : BOOLEAN, values : BOOLEAN]]
      /\ venue'[v].item = run[b].items /\ ~ claim'[v].items /\ ~ claim'[v].values
      /\ \A w \in Venues \ {v} : venue'[w] = venue[w] /\ claim'[w] = claim[w]
  BY <1>1, <1>2, Sent, ShowsTyped DEF Values
<1>. QED  BY <1>1, <1>2, <1>3, <1>0, RowTyped, JobStep DEF TypeOK

LEMMA PatchItemsFailsStep ==
  ASSUME IInv, NEW b \in Businesses, NEW v \in Venues, PatchItemsFails(b, v)
  PROVE  IInv'
<1> DEFINE j == [main |-> "options", side |-> "cooldown"]
<1> DEFINE n == [run[b] EXCEPT !.jobs[v] = j]
<1>1. /\ run[b].jobs[v].main = "items"
      /\ ShowsAt(v, run[b].items, "unsent") \/ UNCHANGED <<venue, claim>>
      /\ UNCHANGED <<menu, row, marking, edits, excused>>
  BY DEF PatchItemsFails
<1>2. /\ TypeOK /\ Synced(b) /\ run[b].at = "venues" /\ row[b] \in Row /\ v \in Reached(b)
      /\ excused \subseteq Businesses /\ run[b] \in Run
      /\ j \in [main : MainSteps, side : SideSteps]
  BY <1>1, JobFacts DEF MainSteps, SideSteps
<1>3. Becomes(b, v, j)
  <2>1. run' = [run EXCEPT ![b] = n]
    BY DEF PatchItemsFails
  <2>2. ~ Resting(n.jobs)
    BY <1>2 DEF Resting, Run
  <2>. QED  BY <2>1, <2>2 DEF Settled, Becomes
<1>4. /\ venue' \in [Venues -> [item : BOOLEAN, value : {"on", "off"}]]
      /\ claim' \in [Venues -> [items : BOOLEAN, values : BOOLEAN]]
      /\ claim'[v].items => venue'[v].item = ItemEnabled(menu[b])
      /\ claim'[v].values /\ menu[b].option => venue'[v].value = OnOff(menu[b].value)
      /\ \A w \in Venues \ {v} : venue'[w] = venue[w] /\ claim'[w] = claim[w]
  <2>1. CASE ShowsAt(v, run[b].items, "unsent")
    BY <2>1, <1>2, Sent, ShowsTyped DEF Values
  <2>2. CASE UNCHANGED <<venue, claim>>
    BY <2>2, <1>2 DEF TypeOK, Synced
  <2>. QED  BY <1>1, <2>1, <2>2
<1>5. j.main = "options" /\ j.side = "cooldown"
  OBVIOUS
<1> HIDE DEF j
<1>. QED  BY <1>1, <1>2, <1>3, <1>4, <1>5, RowTyped, JobStep DEF TypeOK

LEMMA PatchOptionsStep ==
  ASSUME IInv, NEW b \in Businesses, NEW v \in Venues, PatchOptions(b, v)
  PROVE  IInv'
<1>1. /\ run[b].jobs[v].main = "options" /\ ShowsAt(v, venue[v].item, run[b].values)
      /\ Goes(b, v, "main", "success")
      /\ UNCHANGED <<menu, row, marking, edits, excused>>
  BY DEF PatchOptions
<1>0. PICK j \in [main : MainSteps, side : SideSteps] :
        /\ j.main = "success" /\ j.side = run[b].jobs[v].side
        /\ Becomes(b, v, j)
  BY <1>1, GoesMain DEF MainSteps
<1>2. /\ TypeOK /\ run[b].at = "venues" /\ row[b] \in Row /\ v \in Reached(b)
      /\ excused \subseteq Businesses
      /\ run[b].jobs[v].side = "idle" => venue[v].item = run[b].items
  BY <1>1, JobFacts DEF RunOK
<1>3. /\ venue' \in [Venues -> [item : BOOLEAN, value : {"on", "off"}]]
      /\ claim' \in [Venues -> [items : BOOLEAN, values : BOOLEAN]]
      /\ venue'[v].item = venue[v].item
      /\ run[b].values # "unsent" => venue'[v].value = run[b].values
      /\ ~ claim'[v].items /\ ~ claim'[v].values
      /\ \A w \in Venues \ {v} : venue'[w] = venue[w] /\ claim'[w] = claim[w]
  BY <1>1, <1>2, Sent, ShowsTyped
<1>. QED  BY <1>1, <1>2, <1>3, <1>0, RowTyped, JobStep DEF TypeOK

LEMMA PatchOptionsFailsStep ==
  ASSUME IInv, NEW b \in Businesses, NEW v \in Venues, PatchOptionsFails(b, v)
  PROVE  IInv'
<1>1. /\ run[b].jobs[v].main = "options"
      /\ ShowsAt(v, venue[v].item, run[b].values) \/ UNCHANGED <<venue, claim>>
      /\ Goes(b, v, "main", "cooldown")
      /\ UNCHANGED <<menu, row, marking, edits, excused>>
  BY DEF PatchOptionsFails, Refused
<1>0. PICK j \in [main : MainSteps, side : SideSteps] :
        /\ j.main = "cooldown" /\ j.side = run[b].jobs[v].side
        /\ Becomes(b, v, j)
  BY <1>1, GoesMain DEF MainSteps
<1>2. /\ TypeOK /\ Synced(b) /\ run[b].at = "venues" /\ row[b] \in Row /\ v \in Reached(b)
      /\ excused \subseteq Businesses
  BY <1>1, JobFacts
<1>3. /\ venue' \in [Venues -> [item : BOOLEAN, value : {"on", "off"}]]
      /\ claim' \in [Venues -> [items : BOOLEAN, values : BOOLEAN]]
      /\ claim'[v].items => venue'[v].item = ItemEnabled(menu[b])
      /\ claim'[v].values /\ menu[b].option => venue'[v].value = OnOff(menu[b].value)
      /\ \A w \in Venues \ {v} : venue'[w] = venue[w] /\ claim'[w] = claim[w]
  <2>1. CASE ShowsAt(v, venue[v].item, run[b].values)
    BY <2>1, <1>2, Sent, ShowsTyped
  <2>2. CASE UNCHANGED <<venue, claim>>
    BY <2>2, <1>2 DEF TypeOK, Synced
  <2>. QED  BY <1>1, <2>1, <2>2
<1>. QED  BY <1>1, <1>2, <1>3, <1>0, RowTyped, JobStep DEF TypeOK

\* A step of a job that Wolt sees nothing of.
LEMMA BackstageStep ==
  ASSUME IInv, NEW b \in Businesses, NEW v \in Venues,
         run[b].jobs[v].main # "idle" \/ run[b].jobs[v].side # "idle",
         NEW j \in [main : MainSteps, side : SideSteps],
         Becomes(b, v, j),
         j.main \in {"options", "success"} =>
            j.main = run[b].jobs[v].main /\ (j.side = "idle" => run[b].jobs[v].side = "idle"),
         j.main # "idle" => run[b].jobs[v].main # "idle",
         NEW r \in Row, row' = [row EXCEPT ![b] = r],
         excused' \in SUBSET Businesses,
         \A c \in Businesses \ {b} : c \in excused' <=> c \in excused,
         j.main = "idle" /\ j.side \in {"idle", "done"} =>
            ~ r.processing \/ r.time \in {"ahead", "due"} \/ b \in excused',
         UNCHANGED <<menu, venue, marking, edits, claim>>
  PROVE  IInv'
<1>1. /\ TypeOK /\ RunOK(b) /\ Synced(b) /\ run[b].at = "venues"
      /\ run[b].jobs[v].main # "idle" => v \in Reached(b)
  BY JobFacts
<1>2. /\ row' \in [Businesses -> Row \union {NoRow}] /\ row'[b] = r /\ r # NoRow
      /\ \A c \in Businesses \ {b} : row'[c] = row[c]
  BY <1>1, RowTyped DEF TypeOK
<1>3. /\ j.main \in {"options", "success"} /\ j.side = "idle" => venue'[v].item = run[b].items
      /\ j.main = "success" /\ run[b].values # "unsent" => venue'[v].value = run[b].values
  BY <1>1 DEF RunOK
<1>4. v \in Reached(b) =>
        /\ claim'[v].items => venue'[v].item = ItemEnabled(menu[b])
        /\ claim'[v].values /\ menu[b].option => venue'[v].value = OnOff(menu[b].value)
  BY <1>1 DEF Synced
<1>. QED  BY <1>1, <1>2, <1>3, <1>4, JobStep DEF TypeOK

LEMMA StepFailsStep ==
  ASSUME IInv, NEW b \in Businesses, NEW v \in Venues, StepFails(b, v)
  PROVE  IInv'
<1>1. /\ run[b].jobs[v].main # "idle" /\ Goes(b, v, "main", "cooldown")
      /\ UNCHANGED <<menu, venue, row, marking, edits, claim, excused>>
  BY DEF StepFails
<1>0. PICK j \in [main : MainSteps, side : SideSteps] :
        /\ j.main = "cooldown" /\ j.side = run[b].jobs[v].side
        /\ Becomes(b, v, j)
  BY <1>1, GoesMain DEF MainSteps
<1>2. /\ row[b] \in Row /\ excused \subseteq Businesses
      /\ row' = [row EXCEPT ![b] = row[b]]
  BY <1>1, JobFacts DEF TypeOK
<1>. QED  BY <1>1, <1>2, <1>0, BackstageStep

LEMMA SucceedStep ==
  ASSUME IInv, NEW b \in Businesses, NEW v \in Venues, Succeed(b, v)
  PROVE  IInv'
<1> DEFINE r == [row[b] EXCEPT !.processing = FALSE, !.onCooldown = FALSE, !.recent = TRUE]
<1> DEFINE said == [items  |-> run[b].claim.items /\ run[b].jobs[v].side = "idle",
                    values |-> run[b].claim.values]
<1>1. /\ run[b].jobs[v].main = "success" /\ Goes(b, v, "main", "idle")
      /\ excused' = excused \ {b} /\ claim' = [claim EXCEPT ![v] = said]
      /\ UNCHANGED <<menu, venue, marking, edits>>
  BY DEF Succeed
<1>0. PICK j \in [main : MainSteps, side : SideSteps] :
        /\ j.main = "idle" /\ j.side = run[b].jobs[v].side
        /\ Becomes(b, v, j)
  BY <1>1, GoesMain DEF MainSteps
<1>2. /\ TypeOK /\ RunOK(b) /\ run[b] \in Run /\ run[b].at = "venues" /\ row[b] \in Row
      /\ v \in Reached(b) /\ excused \subseteq Businesses
  BY <1>1, JobFacts
<1>3. /\ r \in Row /\ ~ r.processing /\ row' = [row EXCEPT ![b] = r]
  BY <1>2 DEF Row, Succeed, TypeOK
<1>4. /\ said \in [items : BOOLEAN, values : BOOLEAN]
      /\ said.items => venue[v].item = ItemEnabled(menu[b])
      /\ said.values /\ menu[b].option => venue[v].value = OnOff(menu[b].value)
  <2>1. said \in [items : BOOLEAN, values : BOOLEAN]
    BY <1>2 DEF Run
  <2>2. said.items => venue[v].item = ItemEnabled(menu[b])
    BY <1>1, <1>2 DEF RunOK
  <2>3. said.values /\ menu[b].option => run[b].values = OnOff(menu[b].value) /\ run[b].values # "unsent"
    BY <1>2 DEF RunOK, ValueSent, OnOff
  <2>. QED  BY <2>1, <2>2, <2>3, <1>1, <1>2 DEF RunOK
<1> HIDE DEF r, said
<1>6. /\ claim' \in [Venues -> [items : BOOLEAN, values : BOOLEAN]] /\ claim'[v] = said
      /\ \A w \in Venues \ {v} : claim'[w] = claim[w]
  BY <1>1, <1>2, <1>4 DEF TypeOK
<1>7. /\ row' \in [Businesses -> Row \union {NoRow}] /\ row'[b] = r /\ r # NoRow
      /\ \A c \in Businesses \ {b} : row'[c] = row[c]
  BY <1>2, <1>3, RowTyped DEF TypeOK
<1>. QED  BY <1>1, <1>2, <1>3, <1>4, <1>0, <1>6, <1>7, JobStep DEF TypeOK

LEMMA ReadTrackingStep ==
  ASSUME IInv, NEW b \in Businesses, NEW v \in Venues, NEW thread \in {"main", "side"},
         ReadTracking(b, v, thread)
  PROVE  IInv'
<1> DEFINE step == IF row[b].recent THEN "later" ELSE "gone"
<1>1. /\ run[b].jobs[v][thread] = "cooldown" /\ Goes(b, v, thread, step)
      /\ UNCHANGED <<menu, venue, row, marking, edits, claim, excused>>
  BY DEF ReadTracking
<1>2. run[b].jobs[v].main # "idle" \/ run[b].jobs[v].side # "idle"
  BY <1>1
<1>3. /\ row[b] \in Row /\ excused \subseteq Businesses
      /\ row' = [row EXCEPT ![b] = row[b]]
  BY <1>1, <1>2, JobFacts DEF TypeOK
<1>4. step \in {"later", "gone"}
  OBVIOUS
<1> HIDE DEF step
<1>5. CASE thread = "main"
  <2>1. run[b].jobs[v].main = "cooldown" /\ Goes(b, v, "main", step)
    BY <1>1, <1>5
  <2>2. PICK j \in [main : MainSteps, side : SideSteps] :
          /\ j.main = step /\ j.side = run[b].jobs[v].side
          /\ Becomes(b, v, j)
    BY <2>1, <1>2, <1>4, GoesMain DEF MainSteps
  <2>. QED  BY <2>1, <2>2, <1>1, <1>2, <1>3, <1>4, BackstageStep
<1>6. CASE thread = "side"
  <2>1. run[b].jobs[v].side = "cooldown" /\ Goes(b, v, "side", step)
    BY <1>1, <1>6
  <2>2. PICK j \in [main : MainSteps, side : SideSteps] :
          /\ j.main = run[b].jobs[v].main /\ j.side = step
          /\ Becomes(b, v, j)
    BY <2>1, <1>2, <1>4, GoesSide DEF SideSteps
  <2>. QED  BY <2>1, <2>2, <1>1, <1>2, <1>3, <1>4, BackstageStep, ZenonT(30)
<1>. QED  BY <1>5, <1>6

\* A cooldown callback ends, with its row written or not.
LEMMA CallbackEnds ==
  ASSUME IInv, NEW b \in Businesses, NEW v \in Venues, NEW thread \in {"main", "side"},
         run[b].jobs[v][thread] \in {"cooldown", "later", "gone"},
         Goes(b, v, thread, Ended(thread)),
         NEW r \in Row, row' = [row EXCEPT ![b] = r],
         excused' \in {excused \union {b}, excused \ {b}},
         r.time \in {"ahead", "due"} \/ b \in excused',
         UNCHANGED <<menu, venue, marking, edits, claim>>
  PROVE  IInv'
<1>1. run[b].jobs[v].main # "idle" \/ run[b].jobs[v].side # "idle"
  OBVIOUS
<1>2. excused \subseteq Businesses /\ excused' \in SUBSET Businesses
  BY <1>1, JobFacts
<1>3. CASE thread = "main"
  <2>1. run[b].jobs[v].main \in {"cooldown", "later", "gone"} /\ Goes(b, v, "main", "idle")
    BY <1>3 DEF Ended
  <2>2. PICK j \in [main : MainSteps, side : SideSteps] :
          /\ j.main = "idle" /\ j.side = run[b].jobs[v].side
          /\ Becomes(b, v, j)
    BY <2>1, <1>1, GoesMain DEF MainSteps
  <2>. QED  BY <2>1, <2>2, <1>1, <1>2, BackstageStep
<1>4. CASE thread = "side"
  <2>1. run[b].jobs[v].side \in {"cooldown", "later", "gone"} /\ Goes(b, v, "side", "done")
    BY <1>4 DEF Ended
  <2>2. PICK j \in [main : MainSteps, side : SideSteps] :
          /\ j.main = run[b].jobs[v].main /\ j.side = "done"
          /\ Becomes(b, v, j)
    BY <2>1, <1>1, GoesSide DEF SideSteps
  <2>. QED  BY <2>1, <2>2, <1>1, <1>2, BackstageStep
<1>. QED  BY <1>3, <1>4

LEMMA WriteCooldownStep ==
  ASSUME IInv, NEW b \in Businesses, NEW v \in Venues, NEW thread \in {"main", "side"},
         WriteCooldown(b, v, thread)
  PROVE  IInv'
<1> DEFINE step == run[b].jobs[v][thread]
<1> DEFINE r == CooledDown(row[b], step)
<1>1. /\ step \in {"later", "gone"}
      /\ excused' = IF step = "gone" THEN excused \union {b} ELSE excused \ {b}
      /\ Goes(b, v, thread, Ended(thread))
      /\ row' = [row EXCEPT ![b] = r]
      /\ UNCHANGED <<menu, venue, marking, edits, claim>>
  BY DEF WriteCooldown
<1>2. r \in Row /\ (r.time = "ahead" \/ step = "gone")
  BY <1>1 DEF CooledDown, Row, Times
<1> HIDE DEF r
<1>. QED  BY <1>1, <1>2, CallbackEnds

LEMMA CooldownFailsStep ==
  ASSUME IInv, NEW b \in Businesses, NEW v \in Venues, NEW thread \in {"main", "side"},
         CooldownFails(b, v, thread)
  PROVE  IInv'
<1>1. run[b].jobs[v].main # "idle" \/ run[b].jobs[v].side # "idle"
  BY DEF CooldownFails
<1>2. row[b] \in Row /\ row' = [row EXCEPT ![b] = row[b]]
  BY <1>1, JobFacts DEF CooldownFails, TypeOK
<1>. QED  BY <1>2, CallbackEnds DEF CooldownFails

(***************************************************************************)
(* The theorems.                                                           *)
(***************************************************************************)

LEMMA InitOK == Init => IInv
<1>. SUFFICES ASSUME Init PROVE IInv
  OBVIOUS
<1>1. TypeOK
  <2>1. menu \in [Businesses -> [category : BOOLEAN, product : BOOLEAN, option : BOOLEAN, value : BOOLEAN]]
    <3> DEFINE all == [category |-> TRUE, product |-> TRUE, option |-> TRUE, value |-> TRUE]
    <3>1. all \in [category : BOOLEAN, product : BOOLEAN, option : BOOLEAN, value : BOOLEAN]
      OBVIOUS
    <3>2. menu \in [Businesses -> {all}]
      BY DEF Init
    <3> HIDE DEF all
    <3>3. \A c \in Businesses : menu[c] = all
      BY <3>2
    <3>. QED  BY <3>1, <3>2, <3>3
  <2>2. venue \in [Venues -> [item : BOOLEAN, value : {"on", "off"}]]
    BY DEF Init
  <2>3. /\ row \in [Businesses -> Row \union {NoRow}] /\ marking = {} /\ excused = {}
        /\ edits \in 0..MaxEdits
    BY MenuTrackingAssumption DEF Init
  <2>4. run \in [Businesses -> Run] /\ claim \in [Venues -> [items : BOOLEAN, values : BOOLEAN]]
    BY NoRunTyped DEF Init
  <2>. QED  BY <2>1, <2>2, <2>3, <2>4 DEF TypeOK
<1>2. \A b \in Businesses : BusinessInv(b)
  BY NoRunTyped, RowTyped, OfOneBusiness
     DEF Init, BusinessInv, RunOK, Synced, Stranded, InFlight
<1>. QED  BY <1>1, <1>2 DEF IInv

LEMMA CrashStep ==
  ASSUME IInv, Crash
  PROVE  IInv'
<1>1. TypeOK'
  BY NoRunTyped DEF IInv, TypeOK, Crash
<1>2. ASSUME NEW b \in Businesses PROVE BusinessInv(b)'
  <2>1. run'[b] = NoRun /\ BusinessInv(b) /\ (InFlight(b) => b \in excused')
    BY <1>1 DEF Crash, IInv
  <2>2. RunOK(b)'
    BY <2>1, RunEnds
  <2>3. Synced(b)'
    BY <2>1 DEF BusinessInv, Synced, Crash, ItemEnabled, OnOff
  <2>4. ~ Stranded(b)' /\ ~ InFlight(b)'
    BY <2>1, NoRunTyped DEF BusinessInv, Stranded, Crash, InFlight
  <2>. QED  BY <2>2, <2>3, <2>4 DEF BusinessInv
<1>. QED  BY <1>1, <1>2 DEF IInv

LEMMA StepOK == IInv /\ [Next]_vars => IInv'
<1>. SUFFICES ASSUME IInv, [Next]_vars PROVE IInv'
  OBVIOUS
<1>1. ASSUME NEW b \in Businesses, NEW field \in Edited, Edit(b, field) PROVE IInv'
  BY <1>1, EditStep
<1>2. ASSUME NEW b \in Businesses, NEW time \in Times, Request(b, time) PROVE IInv'
  BY <1>2, RequestStep
<1>3. ASSUME NEW b \in Businesses, Elapse(b) \/ Age(b) \/ Mark(b) PROVE IInv'
  BY <1>3, ElapseStep, AgeStep, MarkStep
<1>4. ASSUME NEW b \in Businesses, FireMark(b) \/ MarkFails(b) PROVE IInv'
  <2>1. marking' \subseteq {c \in Businesses : row[c] # NoRow}
    BY <1>4 DEF IInv, TypeOK, FireMark, MarkFails, NoRow
  <2>. QED  BY <1>4, <2>1, MarksStep DEF FireMark, MarkFails
<1>5. ASSUME NEW b \in Businesses, FireSync(b) \/ ReadMenu(b) \/ ReadOptions(b) \/ ReadFails(b)
      PROVE IInv'
  BY <1>5, FireSyncStep, ReadMenuStep, ReadOptionsStep, ReadFailsStep
<1>6. ASSUME NEW b \in Businesses, NEW v \in Venues,
             \/ PatchItems(b, v) \/ PatchItemsFails(b, v)
             \/ PatchOptions(b, v) \/ PatchOptionsFails(b, v)
             \/ StepFails(b, v) \/ Succeed(b, v)
      PROVE IInv'
  BY <1>6, PatchItemsStep, PatchItemsFailsStep, PatchOptionsStep, PatchOptionsFailsStep,
     StepFailsStep, SucceedStep
<1>7. ASSUME NEW b \in Businesses, NEW v \in Venues, NEW thread \in {"main", "side"},
             \/ ReadTracking(b, v, thread) \/ WriteCooldown(b, v, thread)
             \/ CooldownFails(b, v, thread)
      PROVE IInv'
  BY <1>7, ReadTrackingStep, WriteCooldownStep, CooldownFailsStep
<1>8. CASE Crash
  BY <1>8, CrashStep
<1>9. CASE UNCHANGED vars
  <2>. USE <1>9 DEF vars
  <2>1. TypeOK'
    BY DEF IInv, TypeOK
  <2>2. \A c \in Businesses : Leaves(c)
    BY DEF Leaves
  <2>. QED  BY <2>1, <2>2, LeftAlone DEF IInv
<1>. QED  BY <1>1, <1>2, <1>3, <1>4, <1>5, <1>6, <1>7, <1>8, <1>9 DEF Next

\* The invariant of every business and its venues.
THEOREM Inductive == Spec => []IInv
BY InitOK, StepOK, PTL DEF Spec

\* Rows, runs and venues keep their types, and only a business with a row is marked.
THEOREM TypeCorrect == Spec => []TypeOK
<1>1. IInv => TypeOK
  BY DEF IInv
<1>. QED  BY <1>1, Inductive, PTL

\* A success reported for a venue is what Ordering has, until the menu is edited or
\* the venue patched again (syncMenu, menuApiCallBack), with any number of
\* businesses and venues.
THEOREM SyncedAsOrderedCorrect == Spec => []SyncedAsOrdered
<1>1. IInv => SyncedAsOrdered
  BY DEF IInv, BusinessInv, Synced, SyncedAsOrdered, ItemEnabled
<1>. QED  BY <1>1, Inductive, PTL

\* A row that says its business is being processed waits for a time or a run, or was
\* left behind by one of the causes the code has (processMenuTracking, onMenuTracking).
THEOREM NothingStrandedCorrect == Spec => []NothingStranded
<1>1. IInv => NothingStranded
  BY DEF IInv, BusinessInv, Stranded, NothingStranded
<1>. QED  BY <1>1, Inductive, PTL
=============================================================================
