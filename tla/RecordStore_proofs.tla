-------------------------- MODULE RecordStore_proofs --------------------------
(***************************************************************************)
(* What the log of records in a flash page returns, for every page, layout *)
(* version and number of slots.                                            *)
(***************************************************************************)
EXTENDS RecordStore, TLAPS

\* The slots of a page whose records hold values of V.
Slot(V) == [version : Nat, value : V]
Page(V) == {s \in Seq(Slot(V)) : Len(s) <= Slots}

LEMMA SlotTyped ==
  ASSUME NEW V, NEW version \in Nat, NEW x \in V
  PROVE  Record(version, x) \in Slot(V) /\ Torn(x) \in Slot(V)
BY DEF Record, Torn, NoVersion, Slot

\* A page has at most one current record, which is intact and one of its slots.
LEMMA LatestProperties ==
  ASSUME NEW V, NEW page \in Seq(Slot(V)), NEW v, NEW r \in Latest(page, v)
  PROVE  /\ Latest(page, v) = {r}
         /\ r \in Slot(V) /\ r.version # NoVersion
         /\ \A w : Latest(page, w) = Latest(page, v)
<1>1. PICK i \in Intact(page) : r = page[i] /\ \A k \in Intact(page) : k <= i
  BY DEF Latest
<1>2. i \in 1 .. Len(page) /\ page[i].version # NoVersion
  BY <1>1 DEF Intact
<1>3. ASSUME NEW q \in Latest(page, v) PROVE q = r
  <2>1. PICK j \in Intact(page) : q = page[j] /\ \A k \in Intact(page) : k <= j
    BY <1>3 DEF Latest
  <2>2. j \in 1 .. Len(page)
    BY <2>1 DEF Intact
  <2>3. i <= j /\ j <= i
    BY <1>1, <2>1
  <2>4. i = j
    BY <1>2, <2>2, <2>3
  <2> QED BY <1>1, <2>1, <2>4
<1>4. \A w : Latest(page, w) = Latest(page, v)
  BY DEF Latest
<1> QED BY <1>1, <1>2, <1>3, <1>4

\* A firmware loads the current value or the default.
LEMMA LoadedValue ==
  ASSUME NEW V, NEW page \in Seq(Slot(V)), NEW version, NEW default
  PROVE  \/ Loaded(page, version, default) = default
         \/ \E r \in Latest(page, NoVersion) : Loaded(page, version, default) = r.value
<1>1. CASE \E r \in Latest(page, version) : r.version = version
  <2>1. Loaded(page, version, default) =
          (CHOOSE r \in Latest(page, version) : r.version = version).value
    BY <1>1 DEF Loaded
  <2>2. (CHOOSE r \in Latest(page, version) : r.version = version) \in Latest(page, version)
    BY <1>1
  <2>3. Latest(page, NoVersion) = Latest(page, version)
    BY DEF Latest
  <2> QED BY <2>1, <2>2, <2>3
<1>2. CASE ~ \E r \in Latest(page, version) : r.version = version
  BY <1>2 DEF Loaded
<1> QED BY <1>1, <1>2

\* Appending an intact record makes it the current one, a torn one leaves the current one.
LEMMA AppendedLatest ==
  ASSUME NEW V, NEW page \in Seq(Slot(V)), NEW x \in Slot(V), NEW v
  PROVE  Latest(Append(page, x), v) = IF x.version # NoVersion THEN {x} ELSE Latest(page, v)
<1> DEFINE after == Append(page, x)
           n == Len(page) + 1
<1>1. /\ Len(page) \in Nat /\ after \in Seq(Slot(V)) /\ Len(after) = n /\ after[n] = x
      /\ \A i \in 1 .. Len(page) : after[i] = page[i]
  OBVIOUS
<1>2. DOMAIN after = 1 .. n /\ DOMAIN page = 1 .. Len(page)
  BY <1>1
<1> HIDE DEF after
<1>3. CASE x.version # NoVersion
  <2>1. n \in Intact(after) /\ \A k \in Intact(after) : k <= n
    BY <1>1, <1>2, <1>3 DEF Intact
  <2>2. x \in Latest(after, v)
    BY <1>1, <2>1 DEF Latest
  <2>3. Latest(after, v) = {x}
    BY <1>1, <2>2, LatestProperties
  <2> QED BY <1>3, <2>3 DEF after
<1>4. CASE x.version = NoVersion
  <2>1. Intact(after) = Intact(page)
    BY <1>1, <1>2, <1>4 DEF Intact
  <2>2. Intact(page) \subseteq 1 .. Len(page)
    BY <1>2 DEF Intact
  <2>3. Latest(after, v) = Latest(page, v)
    BY <1>1, <2>1, <2>2 DEF Latest
  <2> QED BY <1>4, <2>3 DEF after
<1> QED BY <1>3, <1>4

LEMMA EmptyLatest ==
  ASSUME NEW v PROVE Latest(<<>>, v) = {}
BY DEF Latest, Intact

LEMMA EmptyPage ==
  ASSUME NEW V PROVE <<>> \in Page(V)
BY SlotsAssumption DEF Page

LEMMA WritablePage ==
  ASSUME NEW V, NEW page \in Page(V)
  PROVE  Writable(page) \in Page(V) /\ Len(Writable(page)) < Slots
<1>1. Len(page) \in Nat /\ Len(page) <= Slots /\ page \in Seq(Slot(V))
  BY DEF Page
<1>2. <<>> \in Page(V) /\ Len(<<>>) < Slots
  BY SlotsAssumption DEF Page
<1> QED BY <1>1, <1>2, SlotsAssumption DEF Writable

LEMMA AppendedPage ==
  ASSUME NEW V, NEW page \in Page(V), Len(page) < Slots, NEW x \in Slot(V)
  PROVE  Append(page, x) \in Page(V)
<1>1. /\ page \in Seq(Slot(V)) /\ Len(page) \in Nat
      /\ Append(page, x) \in Seq(Slot(V)) /\ Len(Append(page, x)) = Len(page) + 1
  BY DEF Page
<1> QED BY <1>1, SlotsAssumption DEF Page

(***************************************************************************)
(* store_record: whatever the page held, the record is the current one     *)
(* afterwards, and this firmware loads it.                                 *)
(***************************************************************************)
THEOREM StoredIsLatest ==
  ASSUME NEW V, NEW page \in Page(V), NEW version \in Nat \ {NoVersion}, NEW x \in V
  PROVE  /\ Stored(page, Record(version, x)) \in Page(V)
         /\ \A v : Latest(Stored(page, Record(version, x)), v) = {Record(version, x)}
         /\ \A default : Loaded(Stored(page, Record(version, x)), version, default) = x
<1> DEFINE r == Record(version, x)
           after == Stored(page, r)
<1>0. r \in Slot(V) /\ r.version = version /\ r.value = x
  BY SlotTyped DEF Record
<1> HIDE DEF r
<1>1. after \in Page(V) /\ \A v : Latest(after, v) = {r}
  <2>1. CASE IsCurrent(page, r)
    <3>1. after = page /\ r \in Latest(page, version) /\ page \in Seq(Slot(V))
      BY <1>0, <2>1 DEF Stored, IsCurrent, Page
    <3> QED BY <3>1, LatestProperties
  <2>2. CASE ~IsCurrent(page, r)
    <3>1. after = Append(Writable(page), r)
      BY <2>2 DEF Stored
    <3>2. Writable(page) \in Seq(Slot(V))
      BY WritablePage DEF Page
    <3> QED BY <1>0, <3>1, <3>2, WritablePage, AppendedPage, AppendedLatest
  <2> QED BY <2>1, <2>2
<1> HIDE DEF after
<1>2. ASSUME NEW default PROVE Loaded(after, version, default) = x
  <2>1. Latest(after, version) = {r}
    BY <1>1
  <2>2. (CHOOSE q \in Latest(after, version) : q.version = version) = r
    BY <1>0, <2>1
  <2> QED BY <1>0, <2>1, <2>2 DEF Loaded
<1> QED BY <1>1, <1>2 DEF after, r

(***************************************************************************)
(* A store that is cut short leaves the current record, or none when the   *)
(* page was full and had to be erased; never an older or a torn one.       *)
(***************************************************************************)
THEOREM CutShortKeepsOrLoses ==
  ASSUME NEW V, NEW page \in Page(V), NEW version \in Nat, NEW x \in V,
         NEW cut \in CutShort(page, Record(version, x))
  PROVE  /\ cut \in Page(V)
         /\ \A v : \/ Latest(cut, v) = Latest(page, v)
                   \/ Len(page) = Slots /\ Latest(cut, v) = {}
<1>0. page \in Seq(Slot(V)) /\ Len(page) \in Nat /\ Len(page) <= Slots
  BY DEF Page
<1>1. CASE cut = page
  BY <1>1
<1>2. CASE cut = Append(Writable(page), Torn(x))
  <2>1. Torn(x) \in Slot(V) /\ Torn(x).version = NoVersion
    BY SlotTyped DEF Torn, Record
  <2>2. Writable(page) \in Seq(Slot(V))
    BY WritablePage DEF Page
  <2>3. cut \in Page(V)
    BY <1>2, <2>1, WritablePage, AppendedPage
  <2>4. \A v : Latest(cut, v) = Latest(Writable(page), v)
    BY <1>2, <2>1, <2>2, AppendedLatest
  <2> QED BY <2>3, <2>4, EmptyLatest DEF Writable
<1>3. CASE Len(page) = Slots /\ cut = <<>>
  BY <1>3, EmptyLatest, SlotsAssumption DEF Page
<1>4. CASE Len(page) = Slots /\ cut = [i \in 1 .. Slots |-> Torn(page[i].value)]
  <2>1. \A i \in 1 .. Slots : Torn(page[i].value) \in Slot(V) /\ Torn(page[i].value).version = NoVersion
    <3> TAKE i \in 1 .. Slots
    <3>1. page[i] \in Slot(V)
      BY <1>0, <1>4
    <3> QED BY <3>1, SlotTyped DEF Slot, Torn, Record
  <2>2. cut \in Seq(Slot(V)) /\ Len(cut) = Slots /\ DOMAIN cut = 1 .. Slots
    BY <1>4, <2>1, SlotsAssumption
  <2>3. Intact(cut) = {}
    BY <1>4, <2>1, <2>2 DEF Intact
  <2>4. \A v : Latest(cut, v) = {}
    BY <2>3 DEF Latest
  <2>5. cut \in Page(V)
    BY <2>2, SlotsAssumption DEF Page
  <2> QED BY <1>4, <2>4, <2>5
<1>5. CutShort(page, Record(version, x)) \subseteq
        {page, Append(Writable(page), Torn(x))}
          \cup (IF Len(page) = Slots THEN {<<>>, [i \in 1 .. Slots |-> Torn(page[i].value)]} ELSE {})
  BY DEF CutShort, Record
<1> QED BY <1>1, <1>2, <1>3, <1>4, <1>5
=============================================================================
