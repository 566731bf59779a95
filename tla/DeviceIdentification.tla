------------------------ MODULE DeviceIdentification ------------------------
(***************************************************************************)
(* FC43/14, Read Device Identification: a master that asks for the objects *)
(* of a slave page by page (master.rs), the handler that decides which     *)
(* objects a page holds (slave.rs), and the length an RTU receiver         *)
(* predicts from the first bytes of a page (utils.rs).  The objects may    *)
(* change while the master pages through them.                             *)
(*                                                                         *)
(* An object is its id and the length of its value: lengths are what the   *)
(* pages are cut by.  All lengths and limits are those of the code.        *)
(***************************************************************************)
EXTENDS Integers, Sequences, Functions

CONSTANTS
  Ids,         \* ids of the objects a model may return
  Sizes,       \* and the lengths of their values
  Codes,       \* read device id codes a master asks with
  Starts,      \* object ids it starts at
  MaxChanges   \* bound: changes of the model's objects

ASSUME IdentificationAssumption ==
  Ids \subseteq 0 .. 255 /\ Sizes \subseteq Nat /\ Starts \subseteq 0 .. 255 /\ MaxChanges \in Nat

NoSize == -1   \* of an object the model does not return
Objects == [Ids -> Sizes \cup {NoSize}]

VARIABLES
  objects,   \* what the slave's model returns: the length of each object's value
  changes,   \* how often it has changed
  lasting,   \* ghost: the ids, from the first one asked for, that it has returned all
             \* along, at a length that fits a page
  code, at,  \* the code and object id of the master's next request
  phase,     \* of the master: "ask", "sent", "done" or "refused"
  page,      \* the response on its way
  given        \* the ids of the objects the master has been given

pagingVars == <<objects, changes, lasting, code, at, phase, page, given>>

-----------------------------------------------------------------------------
(* The slave: handle_fc43_14 *)

Served(obj) == {0, 1, 2} \cup {i \in Ids : obj[i] # NoSize}

\* The first three objects are "null" until the model names them.
Size(obj, i) == IF i \in Ids /\ obj[i] # NoSize THEN obj[i] ELSE 4

\* Fault: an extended object is not a place to start at.
StartableBasic(c, id) == IF c = 1 THEN id <= 2 ELSE id <= 6

\* Which ids a code lets a request start at; the others start at 0, or are refused.
Startable(c, id) ==
  CASE c = 1 -> id <= 2
    [] c = 2 -> id <= 6
    [] OTHER -> id <= 6 \/ id >= 128

\* The last of some ids, in the order in which the objects are sorted.
Last(ids) == CHOOSE i \in ids : \A j \in ids : j <= i

ConformityLevel(obj) ==
  IF Last(Served(obj)) >= 128 THEN 131 ELSE IF Last(Served(obj)) > 2 THEN 130 ELSE 129

MaxValue == 245
MaxPage == 253
MaxPaged == MaxPage - 12   \* the longest value that fits a page of its own
Walks == [total : Nat, last : 0 .. 255, ids : Seq(0 .. 255), failed : BOOLEAN, full : BOOLEAN]
Empty == [total |-> 10, last |-> 0, ids |-> <<>>, failed |-> FALSE, full |-> FALSE]

\* Fault: the header of an object is not counted.
WalkUncounted(c, obj, id) ==
  [w \in Walks |->
     LET total == w.total + Size(obj, id) IN
     IF w.failed \/ w.full THEN w
     ELSE IF Size(obj, id) > MaxValue THEN [w EXCEPT !.failed = TRUE]
     ELSE IF total > MaxPage THEN [w EXCEPT !.last = IF @ = 0 THEN id ELSE @]
     ELSE [w EXCEPT !.total = total, !.ids = Append(@, id), !.full = c = 4]]

\* Fault: the last object that did not fit is where the next page starts.
WalkKeepsLast(c, obj, id) ==
  [w \in Walks |->
     LET total == w.total + 2 + Size(obj, id) IN
     IF w.failed \/ w.full THEN w
     ELSE IF Size(obj, id) > MaxValue THEN [w EXCEPT !.failed = TRUE]
     ELSE IF total > MaxPage THEN [w EXCEPT !.last = id]
     ELSE [w EXCEPT !.total = total, !.ids = Append(@, id), !.full = c = 4]]

\* One object of the walk: the page takes every object that still fits, and 0 means that
\* all of them did.
Walk(c, obj, id) ==
  [w \in Walks |->
     LET total == w.total + 2 + Size(obj, id) IN
     IF w.failed \/ w.full THEN w
     ELSE IF Size(obj, id) > MaxValue THEN [w EXCEPT !.failed = TRUE]
     ELSE IF total > MaxPage THEN [w EXCEPT !.last = IF @ = 0 THEN id ELSE @]
     ELSE [w EXCEPT !.total = total, !.ids = Append(@, id), !.full = c = 4]]

\* The objects there may be, as they are sorted: the one before each, and before the end.
Known == {0, 1, 2} \cup Ids
End == 256
Before == [i \in (Known \cup {End}) \ {0} |-> Last({j \in Known : j < i})]

\* The walk over the objects, from the one asked for: what has been collected on coming to
\* each of them, and at the end.
WalkFrom(c, obj, id) ==
  LET walk[i \in Known \cup {End}] ==
        IF i = 0 THEN Empty
        ELSE IF Before[i] \in Served(obj) /\ Before[i] >= id
             THEN Walk(c, obj, Before[i])[walk[Before[i]]]
             ELSE walk[Before[i]] IN
  walk[End]

Exception(err) == [err |-> err]

PageOf(c, obj, w) ==
  [err |-> "none", code |-> c, level |-> ConformityLevel(obj), more |-> w.last # 0,
   next |-> w.last, total |-> w.total, ids |-> w.ids,
   lens |-> [k \in DOMAIN w.ids |-> Size(obj, w.ids[k]) % 256]]

\* Where a page starts: at the object asked for, or else at the first.
Found(c, id, obj) == Startable(c, id) /\ id \in Served(obj)
Start(c, id, obj) == IF Found(c, id, obj) THEN id ELSE 0

HandleFc43_14(c, id, obj) ==
  LET w == WalkFrom(c, obj, Start(c, id, obj)) IN
  IF c \notin 1 .. 4 THEN Exception("IllegalDataValue")
  ELSE IF c = 4 /\ ~Found(c, id, obj) THEN Exception("IllegalDataAddress")
  ELSE IF w.failed THEN Exception("ServerDeviceFailure")
  ELSE PageOf(c, obj, w)

-----------------------------------------------------------------------------
(* The frame of a page *)

\* Where the header of the k-th object begins in the frame, after unit, function code and
\* six bytes of data; and the length of the frame, with its CRC.
Offset(p, k) ==
  LET sum[j \in 0 .. Len(p.lens)] == IF j = 0 THEN 0 ELSE sum[j - 1] + 2 + p.lens[j] IN
  8 + sum[k - 1]
FrameLength(p) == Offset(p, Len(p.lens) + 1) + 2

NeedMore == -1

\* predict_fc43_14_response, from the first `have` bytes of the frame.
Predict(p, have) ==
  IF have < 8 \/ \E k \in DOMAIN p.lens : have < Offset(p, k) + 2 THEN NeedMore
  ELSE FrameLength(p)

-----------------------------------------------------------------------------
(* The master: read_device_identification, called again while more follows *)

\* The pre-check: the right response, and exactly as long as its objects say, which the
\* pages of this slave always are (PagesAreFramed).
PreCheck(p) == p.err = "none" /\ p.code = code

NoPage == Exception("absent")

Refusals ==
  {Exception(err) : err \in {"IllegalDataValue", "IllegalDataAddress", "ServerDeviceFailure"}}
Pages ==
  [err : {"none"}, code : Codes, level : 129 .. 131, more : BOOLEAN, next : 0 .. 255,
   total : 0 .. MaxPage, ids : Seq(0 .. 255), lens : Seq(0 .. 255)]

PagingTypeOK ==
  /\ objects \in Objects /\ changes \in 0 .. MaxChanges /\ lasting \subseteq Ids
  /\ code \in Codes /\ at \in 0 .. 255
  /\ phase \in {"ask", "sent", "done", "refused"}
  /\ page \in IF phase = "sent" THEN Pages \cup Refusals ELSE {NoPage}
  /\ given \subseteq 0 .. 255

PagingInit ==
  /\ objects \in Objects
  /\ changes = 0
  /\ code \in Codes /\ at \in Starts
  /\ lasting = {i \in Ids : objects[i] \in 0 .. MaxPaged /\ i >= at}
  /\ phase = "ask"
  /\ page = NoPage
  /\ given = {}

\* The slave handles the request as it arrives.
Ask ==
  /\ phase = "ask"
  /\ phase' = "sent"
  /\ page' = HandleFc43_14(code, at, objects)
  /\ UNCHANGED <<objects, changes, lasting, code, at, given>>

Receive ==
  /\ phase = "sent"
  /\ IF PreCheck(page)
     THEN /\ given' = given \cup Range(page.ids)
          /\ at' = page.next
          /\ phase' = IF page.more THEN "ask" ELSE "done"
     ELSE phase' = "refused" /\ UNCHANGED <<at, given>>
  /\ page' = NoPage
  /\ UNCHANGED <<objects, changes, lasting, code>>

\* The slave's model is the user's: its objects come, go and change.
Change ==
  /\ changes < MaxChanges
  /\ changes' = changes + 1
  /\ \E i \in Ids, n \in Sizes \cup {NoSize} : objects' = [objects EXCEPT ![i] = n]
  /\ lasting' = lasting \cap {i \in Ids : objects'[i] \in 0 .. MaxPaged}
  /\ UNCHANGED <<code, at, phase, page, given>>

PagingNext == Ask \/ Receive \/ Change

PagingSpec == PagingInit /\ [][PagingNext]_pagingVars

FairPagingSpec == PagingSpec /\ WF_pagingVars(Ask \/ Receive)

-----------------------------------------------------------------------------
(* Properties *)

\* A master that is told that nothing follows has every object that the model has had
\* all along, from the first one on: pages neither skip an object nor drop one, and a
\* model that changes between two pages takes nothing else away.  (The handler allows
\* values of up to 245 bytes; object 0 with one too long for a page is left out unsaid,
\* since a next object of 0 means that nothing follows.)
NothingIsSkipped ==
  phase = "done" /\ code # 4 => \A i \in lasting : i \in given

\* The receiver of a page waits for its whole frame and for no byte more, whatever part
\* of it has arrived, and the frame is never longer than an RTU frame.
PagesAreFramed ==
  page.err = "none" =>
    /\ FrameLength(page) = page.total /\ page.total <= MaxPage
    /\ \A have \in 0 .. FrameLength(page) : Predict(page, have) \in {NeedMore, FrameLength(page)}
    /\ Predict(page, FrameLength(page)) = FrameLength(page)

\* Every page that more is to follow leads the master on: to an object the model serves,
\* behind the one the page starts at, unless that one is too long for any page.
PagesAdvance ==
  [][phase = "ask" /\ page'.err = "none" /\ page'.more =>
       LET start == Start(code, at, objects) IN
       /\ page'.next \in Served(objects)
       /\ Size(objects, start) <= MaxPaged => page'.next > start]_pagingVars

\* The objects a code is for.
Category(c) == CASE c = 1 -> 0 .. 2 [] c = 2 -> 0 .. 6 [] OTHER -> 0 .. 6 \cup 128 .. 255

\* A page goes on to objects of other categories, which the next request may not start at.
Pageable ==
  \A i \in Served(objects) : Size(objects, i) \notin MaxPaged + 1 .. MaxValue /\ i \in Category(code)

\* Paging comes to an end, if a page can hold every object the model returns, and the
\* code asked with is for all of them.
PagingEnds == []Pageable => <>(phase \in {"done", "refused"})
=============================================================================
