----------------------- MODULE DebuggerSession_proofs ------------------------
(***************************************************************************)
(* Invariants of a DbgEng session: the capture of the debuggee's output,   *)
(* for any limits and any texts, the current thread, the breakpoints, the  *)
(* dumps, and the image cache, for any number of processes that share it;  *)
(* what its queries answer, and what is read of image files and of dumps.  *)
(***************************************************************************)
EXTENDS DebuggerSession, TLAPS, FiniteSetTheorems, WellFoundedInduction

-----------------------------------------------------------------------------
(* The characters of a list of records.                                    *)

\* g[n] is what the first n of the records have.
Sums(g, records) ==
  g = [n \in 0..Len(records) |-> IF n = 0 THEN 0 ELSE g[n - 1] + records[n].chars]

(* Two functions that sum up the records agree: at the first place where   *)
(* they differed, the defining equation makes them equal.                  *)
LEMMA SumsAgree ==
  ASSUME NEW S, NEW records \in Seq(S), NEW f, NEW g, Sums(f, records), Sums(g, records)
  PROVE  f[Len(records)] = g[Len(records)]
<1> DEFINE Differ == {n \in 0..Len(records) : f[n] # g[n]}
<1>1. Len(records) \in Nat
  OBVIOUS
<1>2. ASSUME NEW n \in 0..Len(records)
      PROVE  /\ f[n] = IF n = 0 THEN 0 ELSE f[n - 1] + records[n].chars
             /\ g[n] = IF n = 0 THEN 0 ELSE g[n - 1] + records[n].chars
  BY <1>2 DEF Sums
<1>3. CASE Differ # {}
  <2>1. Differ \subseteq Nat
    BY <1>1
  <2>2. PICK least \in Differ : \A n \in Differ : <<n, least>> \notin OpToRel(<, Nat)
    BY <1>3, <2>1, WFMin, NatLessThanWellFounded
  <2>3. least # 0
    BY <1>2
  <2>4. least - 1 \in 0..Len(records) /\ <<least - 1, least>> \in OpToRel(<, Nat)
    BY <1>1, <2>1, <2>3 DEF OpToRel
  <2>5. f[least - 1] = g[least - 1]
    BY <2>2, <2>4
  <2> QED
    BY <1>2, <2>3, <2>5
<1> QED
  BY <1>1, <1>3

(* So any such function gives CharsOf.                                     *)
LEMMA SumsAreChars ==
  ASSUME NEW S, NEW records \in Seq(S), NEW g, Sums(g, records)
  PROVE  CharsOf(records) = g[Len(records)]
<1>1. CharsOf(records) = (CHOOSE f : Sums(f, records))[Len(records)]
  BY DEF CharsOf, Sums
<1>2. Sums(CHOOSE f : Sums(f, records), records)
  OBVIOUS
<1> QED
  BY <1>1, <1>2, SumsAgree

\* A list that gets one more record has that many more characters.
LEMMA SumsOfAppended ==
  ASSUME NEW S, NEW records \in Seq(S), NEW r \in S, r.chars \in Nat, NEW g, Sums(g, records)
  PROVE  \E h : /\ Sums(h, Append(records, r))
                /\ h[Len(Append(records, r))] = g[Len(records)] + r.chars
<1> DEFINE longer == Append(records, r)
           last == Len(records) + 1
           h == [n \in 0..last |-> IF n = last THEN g[Len(records)] + r.chars ELSE g[n]]
<1>1. /\ Len(records) \in Nat /\ Len(longer) = last
      /\ longer[last] = r /\ \A n \in 1..Len(records) : longer[n] = records[n]
  OBVIOUS
<1>2. \A n \in 0..Len(records) :
        g[n] = IF n = 0 THEN 0 ELSE g[n - 1] + records[n].chars
  BY DEF Sums
<1>3. \A n \in 0..last :
        h[n] = IF n = 0 THEN 0 ELSE h[n - 1] + longer[n].chars
  <2> SUFFICES ASSUME NEW n \in 0..last
               PROVE  h[n] = IF n = 0 THEN 0 ELSE h[n - 1] + longer[n].chars
    OBVIOUS
  <2>1. CASE n = last
    <3>1. h[n] = g[Len(records)] + r.chars
      BY <2>1
    <3>2. n # 0 /\ n - 1 = Len(records) /\ n - 1 # last /\ n - 1 \in 0..last
      BY <1>1, <2>1
    <3>3. h[n - 1] = g[Len(records)]
      BY <3>2
    <3> QED
      BY <1>1, <2>1, <3>1, <3>2, <3>3
  <2>2. CASE n # last /\ n # 0
    <3>1. n \in 1..Len(records) /\ n - 1 \in 0..Len(records) /\ n - 1 # last
      BY <1>1, <2>2
    <3>2. h[n] = g[n] /\ h[n - 1] = g[n - 1]
      BY <1>1, <2>2, <3>1
    <3> QED
      BY <1>1, <1>2, <2>2, <3>1, <3>2
  <2>3. CASE n = 0
    BY <1>1, <1>2, <2>3
  <2> QED
    BY <2>1, <2>2, <2>3
<1>4. h[Len(longer)] = g[Len(records)] + r.chars
  BY <1>1
<1>5. Sums(h, longer)
  BY <1>1, <1>3 DEF Sums
<1> QED
  BY <1>4, <1>5

-----------------------------------------------------------------------------
(* The capture.                                                            *)

Texts == [chars : Nat, truncated : BOOLEAN]

Captures ==
  [active : BOOLEAN, previous : {"none", "capture"}, previousMask : {"default", "debuggee"},
   records : Seq(Texts), total : Nat, droppedRecords : Nat, droppedChars : Nat,
   written : Nat, chars : Nat]

CaptureTypes ==
  /\ callback \in {"none", "capture"} /\ mask \in {"default", "debuggee"}
  /\ stuck \in BOOLEAN
  /\ capture = NoCapture \/ (capture \in Captures /\ capture.active)

\* NothingUncounted, with what adds the characters up.
Counted(c) ==
  /\ Len(c.records) + c.droppedRecords = c.written
  /\ c.total + c.droppedChars = c.chars
  /\ \E g : Sums(g, c.records) /\ g[Len(c.records)] = c.total
  /\ Len(c.records) <= MaxRecords
  /\ c.total <= MaxTotal
  /\ \A i \in DOMAIN c.records : c.records[i].chars <= MaxChars

\* Unless the engine got stuck, a capture knows what was there before it.
Remembered ==
  capture.active /\ ~stuck => capture.previous = "none" /\ capture.previousMask = "default"

CaptureInv ==
  /\ CaptureTypes
  /\ capture.active => Counted(capture)
  /\ Remembered /\ OutputRestored

(* What holds of a capture while one is under way.                         *)
LEMMA Activity ==
  ASSUME CaptureTypes
  PROVE  /\ capture.active \in BOOLEAN
         /\ capture.active => capture \in Captures
         /\ ~capture.active => capture = NoCapture
<1>1. capture.active \in BOOLEAN
  <2>1. CASE capture = NoCapture
    BY <2>1 DEF NoCapture
  <2>2. CASE capture \in Captures
    BY <2>2 DEF Captures
  <2> QED
    BY <2>1, <2>2 DEF CaptureTypes
<1>2. capture.active => capture \in Captures
  BY DEF CaptureTypes, NoCapture
<1>3. ~capture.active => capture = NoCapture
  BY DEF CaptureTypes
<1> QED
  BY <1>1, <1>2, <1>3

(* The smaller of two numbers is one of them and no larger than either.    *)
LEMMA LeastBounds ==
  ASSUME NEW a \in Nat, NEW b \in Nat, NEW c \in Nat
  PROVE  /\ Least(a, b, c) \in Nat
         /\ Least(a, b, c) <= a /\ Least(a, b, c) <= b /\ Least(a, b, c) <= c
<1>1. \E x \in {a, b, c} : \A y \in {a, b, c} : x =< y
  <2>1. CASE a <= b /\ a <= c
    BY <2>1
  <2>2. CASE b <= a /\ b <= c
    BY <2>2
  <2>3. CASE c <= a /\ c <= b
    BY <2>3
  <2> QED
    BY <2>1, <2>2, <2>3
<1>2. Least(a, b, c) \in {a, b, c} /\ \A y \in {a, b, c} : Least(a, b, c) =< y
  BY <1>1 DEF Least, Min
<1> QED
  BY <1>2

(* Nothing has been captured yet.                                          *)
LEMMA CaptureStarts == CaptureInit => CaptureInv
<1>1. ~NoCapture.active
  BY DEF NoCapture
<1> QED
  BY <1>1 DEF CaptureInit, CaptureInv, CaptureTypes, Remembered, OutputRestored

\* A capture after one more text of the debuggee.
Written(c, chars) ==
  [Recorded(c, chars) EXCEPT !.written = @ + 1, !.chars = @ + chars]

(* The fields of a capture keep their types.                               *)
LEMMA CaptureFields ==
  ASSUME NEW c \in Captures
  PROVE  /\ c.droppedRecords \in Nat /\ c.droppedChars \in Nat /\ c.written \in Nat
         /\ c.chars \in Nat /\ c.total \in Nat /\ Len(c.records) \in Nat
  BY DEF Captures

(* A record that is dropped as a whole is counted as a whole.              *)
LEMMA DropRecordCounts ==
  ASSUME NEW c \in Captures, Counted(c), NEW chars \in Nat, Len(c.records) >= MaxRecords
  PROVE  LET d == Written(c, chars)
         IN d \in Captures /\ d.active = c.active /\ Counted(d)
<1> DEFINE d == Written(c, chars)
<1>1. d = [c EXCEPT !.droppedRecords = @ + 1, !.droppedChars = @ + chars,
                    !.written = @ + 1, !.chars = @ + chars]
  BY DEF Written, Recorded, DropRecord, Captures
<1> HIDE DEF d
<1>2. /\ d.active = c.active /\ d.records = c.records /\ d.total = c.total
      /\ d.droppedRecords = c.droppedRecords + 1 /\ d.written = c.written + 1
      /\ d.droppedChars = c.droppedChars + chars /\ d.chars = c.chars + chars
  BY <1>1 DEF Captures
<1>3. d \in Captures
  <2>1. /\ c.droppedRecords + 1 \in Nat /\ c.droppedChars + chars \in Nat
        /\ c.written + 1 \in Nat /\ c.chars + chars \in Nat
    BY CaptureFields
  <2> QED
    BY <1>1, <2>1 DEF Captures
<1>4. /\ Len(c.records) + (c.droppedRecords + 1) = c.written + 1
      /\ c.total + (c.droppedChars + chars) = c.chars + chars
  BY CaptureFields DEF Counted
<1>5. \E g : Sums(g, d.records) /\ g[Len(d.records)] = d.total
  BY <1>2 DEF Counted
<1>6. Counted(d)
  BY <1>2, <1>4, <1>5 DEF Counted
<1> QED
  BY <1>2, <1>3, <1>6 DEF d

(* What is cut off a record that is kept is counted.                       *)
LEMMA RetainCounts ==
  ASSUME NEW c \in Captures, Counted(c), NEW chars \in Nat, ~(Len(c.records) >= MaxRecords)
  PROVE  LET d == Written(c, chars)
         IN d \in Captures /\ d.active = c.active /\ Counted(d)
<1> DEFINE d == Written(c, chars)
           kept == Least(chars, MaxChars, MaxTotal - c.total)
           text == [chars |-> kept, truncated |-> kept < chars]
<1>1. /\ c.droppedRecords \in Nat /\ c.droppedChars \in Nat /\ c.written \in Nat
      /\ c.chars \in Nat /\ c.total \in Nat /\ Len(c.records) \in Nat
  BY CaptureFields
<1>2. c.records \in Seq(Texts)
  BY DEF Captures
<1>3. MaxChars \in Nat /\ MaxTotal \in Nat /\ MaxRecords \in Nat
  BY CaptureAssumption DEF CaptureAssumption
<1>4. kept \in Nat /\ kept <= chars /\ kept <= MaxChars /\ kept <= MaxTotal - c.total
  <2>1. MaxTotal - c.total \in Nat
    BY <1>1, <1>3 DEF Counted
  <2> QED
    BY <1>3, <2>1, LeastBounds
<1>5. d = [c EXCEPT !.records = Append(@, text), !.total = @ + kept,
                    !.droppedChars = @ + (chars - kept),
                    !.written = @ + 1, !.chars = @ + chars]
  BY DEF Written, Recorded, Retain, Captures
<1>6. text \in Texts /\ text.chars = kept
  BY <1>4 DEF Texts
<1> HIDE DEF d, kept, text
<1>7. /\ d.active = c.active
      /\ d.records = Append(c.records, text) /\ d.total = c.total + kept
      /\ d.droppedChars = c.droppedChars + (chars - kept)
      /\ d.droppedRecords = c.droppedRecords
      /\ d.written = c.written + 1 /\ d.chars = c.chars + chars
  BY <1>5 DEF Captures
<1>8. d \in Captures
  <2>1. /\ c.total + kept \in Nat /\ c.droppedChars + (chars - kept) \in Nat
        /\ c.written + 1 \in Nat /\ c.chars + chars \in Nat
    BY <1>1, <1>4
  <2>2. Append(c.records, text) \in Seq(Texts)
    BY <1>2, <1>6
  <2> QED
    BY <1>5, <2>1, <2>2 DEF Captures
<1>9. \E h : Sums(h, d.records) /\ h[Len(d.records)] = d.total
  <2>1. PICK g : Sums(g, c.records) /\ g[Len(c.records)] = c.total
    BY DEF Counted
  <2>2. PICK h : /\ Sums(h, Append(c.records, text))
                 /\ h[Len(Append(c.records, text))] = g[Len(c.records)] + text.chars
    BY <1>2, <1>4, <1>6, <2>1, SumsOfAppended
  <2> QED
    BY <1>6, <1>7, <2>1, <2>2
<1>10. /\ Len(d.records) = Len(c.records) + 1
       /\ \A i \in DOMAIN d.records : d.records[i].chars <= MaxChars
  <2>1. /\ Len(d.records) = Len(c.records) + 1 /\ DOMAIN d.records = 1..(Len(c.records) + 1)
        /\ d.records[Len(c.records) + 1] = text
        /\ DOMAIN c.records = 1..Len(c.records)
        /\ \A i \in 1..Len(c.records) : d.records[i] = c.records[i]
    BY <1>2, <1>6, <1>7
  <2>2. \A i \in 1..(Len(c.records) + 1) : i = Len(c.records) + 1 \/ i \in 1..Len(c.records)
    BY <1>1
  <2> QED
    BY <1>4, <1>6, <2>1, <2>2 DEF Counted
<1>11. /\ (Len(c.records) + 1) + c.droppedRecords = c.written + 1
       /\ (c.total + kept) + (c.droppedChars + (chars - kept)) = c.chars + chars
       /\ c.total + kept <= MaxTotal /\ Len(c.records) + 1 <= MaxRecords
  <2>1. Len(c.records) + c.droppedRecords = c.written /\ c.total + c.droppedChars = c.chars
    BY DEF Counted
  <2>2. (Len(c.records) + 1) + c.droppedRecords = c.written + 1
    BY <1>1, <2>1
  <2>3. (c.total + kept) + (c.droppedChars + (chars - kept)) = c.chars + chars
    BY <1>1, <1>4, <2>1
  <2>4. c.total + kept <= MaxTotal
    BY <1>1, <1>3, <1>4
  <2>5. Len(c.records) + 1 <= MaxRecords
    BY <1>1, <1>3
  <2> QED
    BY <2>2, <2>3, <2>4, <2>5
<1>12. Counted(d)
  BY <1>7, <1>9, <1>10, <1>11 DEF Counted
<1> QED
  BY <1>7, <1>8, <1>12 DEF d

(* A callback keeps the count, whichever of the limits it meets.           *)
LEMMA OutputKeeps ==
  ASSUME CaptureInv, NEW category, NEW chars \in Nat, Output(category, chars)
  PROVE  CaptureInv' /\ capture'.active = capture.active
<1>1. CASE capture' = capture
  BY <1>1 DEF Output, CaptureInv, CaptureTypes, Counted, Remembered, OutputRestored
<1>2. CASE capture.active /\ capture' = Written(capture, chars)
  <2>1. capture \in Captures /\ Counted(capture)
    BY <1>2, Activity DEF CaptureInv
  <2>2. capture' \in Captures /\ capture'.active = capture.active /\ Counted(capture')
    BY <1>2, <2>1, DropRecordCounts, RetainCounts
  <2>3. capture'.previous = capture.previous /\ capture'.previousMask = capture.previousMask
    BY <1>2, <2>1 DEF Written, Recorded, DropRecord, Retain, Captures
  <2>4. UNCHANGED <<callback, mask, stuck>>
    BY DEF Output
  <2> QED
    BY <1>2, <2>2, <2>3, <2>4
    DEF CaptureInv, CaptureTypes, Counted, Remembered, OutputRestored
<1> QED
  BY <1>1, <1>2, Activity DEF Output, Written, CaptureInv

(* A capture begins with nothing kept and nothing lost.                    *)
LEMMA BeginKeeps ==
  ASSUME CaptureInv, ~capture.active, BeginCapture
  PROVE  CaptureInv'
<1>1. PICK previous \in {callback, "none"} :
        /\ callback' = "capture" /\ mask' = "debuggee" /\ stuck' = stuck
        /\ capture' = CaptureWith(previous)
  BY DEF BeginCapture
<1>2. previous \in {"none", "capture"} /\ (~stuck => previous = "none" /\ mask = "default")
  BY DEF CaptureInv, CaptureTypes, OutputRestored
<1>3. capture' \in Captures /\ capture'.active
  BY <1>1, <1>2 DEF CaptureWith, Captures, CaptureInv, CaptureTypes
<1>4. Counted(CaptureWith(previous))
  <2>1. Sums([n \in 0..0 |-> 0], <<>>)
    BY DEF Sums
  <2>2. CaptureWith(previous).records = <<>> /\ CaptureWith(previous).total = 0
    BY DEF CaptureWith
  <2>3. \E g : Sums(g, CaptureWith(previous).records)
               /\ g[Len(CaptureWith(previous).records)] = CaptureWith(previous).total
    BY <2>1, <2>2
  <2>4. MaxRecords \in Nat /\ MaxTotal \in Nat
    BY CaptureAssumption DEF CaptureAssumption
  <2> QED
    BY <2>2, <2>3, <2>4 DEF Counted, CaptureWith
<1>5. Counted(capture)'
  BY <1>1, <1>4 DEF Counted
<1> QED
  BY <1>1, <1>2, <1>3, <1>5
  DEF CaptureInv, CaptureTypes, Remembered, OutputRestored, CaptureWith

(* A capture that cannot begin puts back what it had replaced.             *)
LEMMA BeginFails ==
  ASSUME CaptureInv, ~capture.active, BeginCaptureFails
  PROVE  CaptureInv' /\ ~capture'.active
  BY DEF BeginCaptureFails, CaptureInv, CaptureTypes, Remembered, OutputRestored

(* Finishing, and the drop behind it, put back callbacks and mask.         *)
LEMMA FinishKeeps ==
  ASSUME CaptureInv, capture.active, NEW ok, FinishCapture(ok)
  PROVE  CaptureInv' /\ ~capture'.active
<1>1. PICK first \in Attempts, second \in Attempts :
        Restore({first, second}) /\ stuck' = (stuck \/ second # "restored")
  BY DEF FinishCapture
<1>2. capture' = NoCapture /\ ~capture'.active
  BY DEF FinishCapture, NoCapture
<1>3. capture \in Captures
  BY Activity DEF CaptureInv
<1>4. CaptureTypes'
  BY <1>1, <1>2, <1>3 DEF Restore, CaptureInv, CaptureTypes, Captures
<1>5. OutputRestored'
  <2>1. CASE ~stuck'
    BY <1>1, <2>1 DEF Restore, CaptureInv, CaptureTypes, Remembered, OutputRestored
  <2> QED
    BY <2>1 DEF OutputRestored
<1> QED
  BY <1>2, <1>4, <1>5 DEF CaptureInv, Remembered

(* The invariant of the capture says what NothingUncounted does.           *)
LEMMA NothingIsUncounted == CaptureInv => NothingUncounted
<1> SUFFICES ASSUME CaptureInv, capture.active PROVE NothingUncounted
  BY DEF NothingUncounted
<1>1. Counted(capture) /\ capture.records \in Seq(Texts)
  BY Activity DEF CaptureInv, Captures
<1>2. CharsOf(capture.records) = capture.total
  BY <1>1, SumsAreChars DEF Counted
<1> QED
  BY <1>1, <1>2 DEF Counted, NothingUncounted

-----------------------------------------------------------------------------
(* The image cache.                                                        *)

Steps == {"idle", "look", "other_image", "request", "create", "copy", "rename",
          "check", "pdb", "configure"}

CacheTypes ==
  /\ server \in {"match", "wrong"}
  /\ store \in {"absent", "match", "wrong"}
  /\ temp \in [Processes -> {"absent", "partial", "match", "wrong"}]
  /\ step \in [Processes -> Steps]
  /\ offline \in [Processes -> BOOLEAN]
  /\ requests \in [Processes -> Nat]
  /\ image \in [Processes -> {"none", "local", "cache"}]
  /\ imagePath \in [Processes -> {"none", "local", "cache"}]
  /\ leftover \in [Processes -> BOOLEAN]

\* What is renamed is the whole image that the server has.
RenamesWhole ==
  \A p \in Processes : step[p] = "rename" => temp[p] = server

\* Nobody downloads another image over the one that was asked for.
NoneReplaces ==
  store = "match" /\ server = "wrong" =>
    \A p \in Processes : step[p] \notin {"request", "create", "copy", "rename"}

\* An image found in the cache is there.
FoundIsThere ==
  \A p \in Processes : "cache" \in {image[p], imagePath[p]} => store = "match"

CacheInv ==
  CacheTypes /\ RenamesWhole /\ NoneReplaces /\ FoundIsThere /\ TemporaryIsRemoved

(* Before the first download the cache is empty.                           *)
LEMMA CacheStarts == CacheInit => CacheInv
  BY DEF CacheInit, CacheInv, CacheTypes, Steps, RenamesWhole, NoneReplaces, FoundIsThere,
         TemporaryIsRemoved

(* A prefetch that ends.                                                   *)
LEMMA EndKeepsTypes ==
  ASSUME CacheTypes, NEW p \in Processes, Ends(p)
  PROVE  /\ step' \in [Processes -> Steps]
         /\ offline' \in [Processes -> BOOLEAN]
         /\ requests' \in [Processes -> Nat]
         /\ image' \in [Processes -> {"none", "local", "cache"}]
  BY DEF Ends, Goes, CacheTypes, Steps

(* A prefetch that goes on.                                                *)
LEMMA GoingKeepsTypes ==
  ASSUME CacheTypes, NEW p \in Processes, NEW to \in Steps, Goes(p, to)
  PROVE  step' \in [Processes -> Steps]
  BY DEF Goes, CacheTypes

(* A temporary file that is removed or left over.                          *)
LEMMA RemovalKeepsTypes ==
  ASSUME CacheTypes, NEW p \in Processes, RemoveTemporary(p)
  PROVE  /\ temp' \in [Processes -> {"absent", "partial", "match", "wrong"}]
         /\ leftover' \in [Processes -> BOOLEAN]
  BY DEF RemoveTemporary, CacheTypes

\* A process goes a step further without a change to a file.
LEMMA QuietKeeps ==
  ASSUME CacheInv, NEW p \in Processes,
         \/ BeginPrefetch(p) \/ NotAnImage(p) \/ LookInCache(p) \/ Request(p)
         \/ CheckDownload(p) \/ PrefetchPdb(p) \/ ConfigurePaths(p)
  PROVE  CacheInv'
<1>1. UNCHANGED <<server, store, temp, leftover>>
  BY DEF BeginPrefetch, NotAnImage, LookInCache, Request, CheckDownload, PrefetchPdb,
         ConfigurePaths, storeVars
<1>2. /\ step[p] \notin {"copy", "rename"}
      /\ \A q \in Processes \ {p} :
           step'[q] = step[q] /\ image'[q] = image[q] /\ imagePath'[q] = imagePath[q]
  BY DEF BeginPrefetch, NotAnImage, LookInCache, Request, CheckDownload, PrefetchPdb,
         ConfigurePaths, Ends, Goes, FoundInCache, CacheInv, CacheTypes
<1>3. CacheTypes'
  <2>1. CacheTypes /\ {"idle", "look", "other_image", "request", "create", "pdb", "configure"}
          \subseteq Steps
    BY DEF CacheInv, Steps
  <2>2. CASE BeginPrefetch(p)
    <3>1. step' \in [Processes -> Steps]
      BY <2>1, <2>2, GoingKeepsTypes DEF BeginPrefetch
    <3> QED
      BY <1>1, <2>1, <2>2, <3>1 DEF BeginPrefetch, CacheTypes
  <2>3. CASE NotAnImage(p)
    BY <1>1, <2>1, <2>3, EndKeepsTypes DEF NotAnImage, CacheTypes
  <2>4. CASE LookInCache(p)
    <3>1. step' \in [Processes -> Steps]
      BY <2>1, <2>4, GoingKeepsTypes, EndKeepsTypes DEF LookInCache, FoundInCache
    <3> QED
      BY <1>1, <2>1, <2>4, <3>1, EndKeepsTypes DEF LookInCache, FoundInCache, CacheTypes
  <2>5. CASE Request(p)
    <3>1. step' \in [Processes -> Steps]
      BY <2>1, <2>5, GoingKeepsTypes, EndKeepsTypes DEF Request, CacheTypes
    <3>2. requests' \in [Processes -> Nat]
      <4>1. CASE Ends(p)
        BY <2>1, <4>1, EndKeepsTypes
      <4>2. CASE ~Ends(p)
        BY <2>1, <2>5, <4>2 DEF Request, CacheTypes
      <4> QED
        BY <4>1, <4>2
    <3>3. offline' \in [Processes -> BOOLEAN] /\ image' \in [Processes -> {"none", "local", "cache"}]
      BY <2>1, <2>5, EndKeepsTypes DEF Request, CacheTypes
    <3>4. imagePath' = imagePath
      BY <2>5 DEF Request
    <3> QED
      BY <1>1, <2>1, <3>1, <3>2, <3>3, <3>4 DEF CacheTypes
  <2>6. CASE CheckDownload(p)
    <3>1. step' \in [Processes -> Steps]
      BY <2>1, <2>6, GoingKeepsTypes, EndKeepsTypes DEF CheckDownload, FoundInCache
    <3> QED
      BY <1>1, <2>1, <2>6, <3>1, EndKeepsTypes DEF CheckDownload, FoundInCache, CacheTypes
  <2>7. CASE PrefetchPdb(p)
    <3>1. step' \in [Processes -> Steps]
      BY <2>1, <2>7, GoingKeepsTypes, EndKeepsTypes DEF PrefetchPdb
    <3> QED
      BY <1>1, <2>1, <2>7, <3>1, EndKeepsTypes DEF PrefetchPdb, CacheTypes
  <2>8. CASE ConfigurePaths(p)
    <3>1. imagePath' \in [Processes -> {"none", "local", "cache"}]
      BY <2>1, <2>8 DEF ConfigurePaths, CacheTypes
    <3> QED
      BY <1>1, <2>1, <2>8, <3>1, EndKeepsTypes DEF ConfigurePaths, CacheTypes
  <2> QED
    BY <2>2, <2>3, <2>4, <2>5, <2>6, <2>7, <2>8
<1>4. /\ step'[p] \notin {"copy", "rename"}
      /\ step'[p] \in {"request", "create"} => store # "match" \/ step[p] = "request"
  BY DEF BeginPrefetch, NotAnImage, LookInCache, Request, CheckDownload, PrefetchPdb,
         ConfigurePaths, Ends, Goes, FoundInCache, Matches, CacheInv, CacheTypes
<1>5. /\ image'[p] = "cache" => store = "match" \/ image[p] = "cache"
      /\ imagePath'[p] = "cache" => image[p] = "cache" \/ imagePath[p] = "cache"
  BY DEF BeginPrefetch, NotAnImage, LookInCache, Request, CheckDownload, PrefetchPdb,
         ConfigurePaths, Ends, Goes, FoundInCache, Matches, Accepts, CacheInv, CacheTypes
<1>6. (RenamesWhole /\ NoneReplaces)'
  BY <1>1, <1>2, <1>4 DEF CacheInv, RenamesWhole, NoneReplaces
<1>7. (FoundIsThere /\ TemporaryIsRemoved)'
  BY <1>1, <1>2, <1>4, <1>5 DEF CacheInv, FoundIsThere, TemporaryIsRemoved
<1> QED
  BY <1>3, <1>6, <1>7 DEF CacheInv

(* Up to the copy nothing in the cache itself changes.                     *)
LEMMA DownloadKeeps ==
  ASSUME CacheInv, NEW p \in Processes, CreateTemporary(p) \/ Copy(p)
  PROVE  CacheInv'
<1>1. /\ step[p] \in {"create", "copy"} /\ UNCHANGED <<server, store, imagePath>>
      /\ \A q \in Processes \ {p} :
           /\ step'[q] = step[q] /\ image'[q] = image[q]
           /\ temp'[q] = temp[q] /\ leftover'[q] = leftover[q]
  BY DEF CreateTemporary, Copy, RemoveTemporary, Ends, Goes, CacheInv, CacheTypes
<1>2. CacheTypes'
  <2>a. CacheTypes /\ {"copy", "rename"} \subseteq Steps
    BY DEF CacheInv, Steps
  <2>1. CASE CreateTemporary(p)
    <3>1. step' \in [Processes -> Steps]
      BY <2>a, <2>1, GoingKeepsTypes, EndKeepsTypes DEF CreateTemporary
    <3>2. /\ temp' \in [Processes -> {"absent", "partial", "match", "wrong"}]
          /\ leftover' \in [Processes -> BOOLEAN]
      BY <2>a, <2>1 DEF CreateTemporary, CacheTypes
    <3> QED
      BY <1>1, <2>a, <2>1, <3>1, <3>2, EndKeepsTypes DEF CreateTemporary, CacheTypes
  <2>2. CASE Copy(p)
    <3>1. step' \in [Processes -> Steps]
      BY <2>a, <2>2, GoingKeepsTypes, EndKeepsTypes DEF Copy
    <3>2. /\ temp' \in [Processes -> {"absent", "partial", "match", "wrong"}]
          /\ leftover' \in [Processes -> BOOLEAN]
      BY <2>a, <2>2, RemovalKeepsTypes DEF Copy, CacheTypes
    <3> QED
      BY <1>1, <2>a, <2>2, <3>1, <3>2, EndKeepsTypes DEF Copy, CacheTypes
  <2> QED
    BY <2>1, <2>2
<1>3. /\ step'[p] \in {"copy", "rename", "idle"} /\ image'[p] \in {image[p], "none"}
      /\ step'[p] = "rename" => temp'[p] = server
      /\ temp'[p] # "absent" => step'[p] # "idle" \/ leftover'[p]
  BY DEF CreateTemporary, Copy, RemoveTemporary, Ends, Goes, CacheInv, CacheTypes,
         TemporaryIsRemoved
<1>4. (RenamesWhole /\ NoneReplaces)'
  BY <1>1, <1>3 DEF CacheInv, RenamesWhole, NoneReplaces
<1>5. (FoundIsThere /\ TemporaryIsRemoved)'
  BY <1>1, <1>3 DEF CacheInv, FoundIsThere, TemporaryIsRemoved
<1> QED
  BY <1>2, <1>4, <1>5 DEF CacheInv

(* The rename puts a whole image there or finds one.                       *)
LEMMA RenameKeeps ==
  ASSUME CacheInv, NEW p \in Processes, Rename(p)
  PROVE  CacheInv'
<1>1. /\ step[p] = "rename" /\ temp[p] = server /\ UNCHANGED <<server, imagePath>>
      /\ store' \in {store, server}
      /\ \A q \in Processes \ {p} :
           /\ step'[q] = step[q] /\ image'[q] = image[q]
           /\ temp'[q] = temp[q] /\ leftover'[q] = leftover[q]
  BY DEF Rename, RemoveAfterRename, RemoveTemporary, Ends, Goes, CacheInv, CacheTypes,
         RenamesWhole
<1>2. CacheTypes'
  <2>1. CacheTypes /\ "check" \in Steps
    BY DEF CacheInv, Steps
  <2>2. step' \in [Processes -> Steps]
    BY <2>1, GoingKeepsTypes, EndKeepsTypes DEF Rename
  <2>3. /\ temp' \in [Processes -> {"absent", "partial", "match", "wrong"}]
        /\ leftover' \in [Processes -> BOOLEAN]
    BY <2>1, RemovalKeepsTypes DEF Rename, RemoveAfterRename, CacheTypes
  <2> QED
    BY <1>1, <2>1, <2>2, <2>3, EndKeepsTypes DEF Rename, CacheTypes
<1>3. /\ step'[p] \in {"check", "idle"} /\ image'[p] \in {image[p], "none"}
      /\ temp'[p] # "absent" => leftover'[p]
  BY DEF Rename, RemoveAfterRename, RemoveTemporary, Ends, Goes, CacheInv, CacheTypes
<1>4. store = "match" => server = "match" /\ store' = "match"
  BY <1>1 DEF CacheInv, CacheTypes, NoneReplaces
<1>5. store' = "match" => store = "match" \/ server = "match"
  BY <1>1
<1>6. (RenamesWhole /\ NoneReplaces)'
  BY <1>1, <1>3, <1>4, <1>5 DEF CacheInv, RenamesWhole, NoneReplaces
<1>7. (FoundIsThere /\ TemporaryIsRemoved)'
  BY <1>1, <1>3, <1>4 DEF CacheInv, FoundIsThere, TemporaryIsRemoved
<1> QED
  BY <1>2, <1>6, <1>7 DEF CacheInv

(* A process that dies leaves its temporary file and nothing else.         *)
LEMMA CrashKeeps ==
  ASSUME CacheInv, NEW p \in Processes, Crash(p)
  PROVE  CacheInv'
<1>1. /\ UNCHANGED <<server, store>> /\ step'[p] = "idle"
      /\ image'[p] = "none" /\ imagePath'[p] = "none"
      /\ temp'[p] # "absent" => leftover'[p]
      /\ \A q \in Processes \ {p} :
           /\ step'[q] = step[q] /\ image'[q] = image[q] /\ imagePath'[q] = imagePath[q]
           /\ temp'[q] = temp[q] /\ leftover'[q] = leftover[q]
  BY DEF Crash, Ends, Goes, CacheInv, CacheTypes
<1>2. CacheTypes'
  BY DEF Crash, Ends, Goes, CacheInv, CacheTypes, Steps
<1>3. (RenamesWhole /\ NoneReplaces)'
  BY <1>1 DEF CacheInv, RenamesWhole, NoneReplaces
<1>4. (FoundIsThere /\ TemporaryIsRemoved)'
  BY <1>1 DEF CacheInv, FoundIsThere, TemporaryIsRemoved
<1> QED
  BY <1>2, <1>3, <1>4 DEF CacheInv

(* Every step of the processes that share the cache keeps its invariant.   *)
LEMMA CacheKeeps ==
  ASSUME CacheInv, CacheNext
  PROVE  CacheInv'
  BY QuietKeeps, DownloadKeeps, RenameKeeps, CrashKeeps DEF CacheNext

-----------------------------------------------------------------------------
(* The session.                                                            *)

\* A capture belongs to a run.
CaptureRuns == capture.active => pc \in {"running", "over"}

\* StopThreadIsCurrent, also while an operation is under way.
Current == ~strayed => thread = stopThread

SessionInv == TypeOK /\ CaptureInv /\ CaptureRuns /\ Current /\ ArmedIsKnown

IInv == SessionInv /\ CacheInv

(* The start satisfies the invariant.                                      *)
LEMMA InitHolds == Init => IInv
<1> SUFFICES ASSUME Init PROVE IInv
  OBVIOUS
<1>1. CaptureInv /\ CacheInv
  BY CaptureStarts, CacheStarts DEF Init
<1>2. TypeOK
  <2>1. 0 \in 0..MaxStops
    BY SessionAssumption DEF SessionAssumption
  <2> QED
    BY <2>1 DEF Init, TypeOK
<1>3. CaptureRuns
  BY DEF Init, CaptureInit, NoCapture, CaptureRuns
<1>4. Current /\ ArmedIsKnown
  BY DEF Init, Current, ArmedIsKnown
<1> QED
  BY <1>1, <1>2, <1>3, <1>4 DEF IInv, SessionInv

\* What a breakpoint is like after some of its steps: it is enabled by the
\* step before the one that reads it back.
LEMMA EnabledIsReadNext ==
  ASSUME NEW r \in Requests, NEW n \in 0..Len(StepsOf(r[1], r[2]))
  PROVE  LET steps == StepsOf(r[1], r[2])
         IN /\ After(steps, n) \in {"unset", "disabled", "enabled"}
            /\ After(steps, n) = "enabled" /\ n # Len(steps) => steps[n + 1] = "read"
<1>1. StepsOf(r[1], r[2]) \in {CodeSteps, ExpressionSteps, DataSteps}
  BY DEF StepsOf
<1>2. ASSUME NEW steps \in {CodeSteps, ExpressionSteps}, NEW m \in 0..Len(steps),
             m # Len(steps), \E i \in 1..m : steps[i] = "enable"
      PROVE  steps[m + 1] = "read"
  <2>1. /\ Len(steps) = 3 /\ steps[1] # "enable" /\ steps[2] = "enable" /\ steps[3] = "read"
    BY <1>2 DEF CodeSteps, ExpressionSteps
  <2>2. m \in {0, 1, 2}
    BY <1>2, <2>1
  <2> QED
    BY <1>2, <2>1, <2>2
<1>3. ASSUME NEW m \in 0..Len(DataSteps),
             m # Len(DataSteps), \E i \in 1..m : DataSteps[i] = "enable"
      PROVE  DataSteps[m + 1] = "read"
  <2>1. /\ Len(DataSteps) = 4 /\ DataSteps[1] # "enable" /\ DataSteps[2] # "enable"
        /\ DataSteps[3] = "enable" /\ DataSteps[4] = "read"
    BY DEF DataSteps
  <2>2. m \in {0, 1, 2, 3}
    BY <1>3, <2>1
  <2> QED
    BY <1>3, <2>1, <2>2
<1>4. After(StepsOf(r[1], r[2]), n) = "enabled" =>
        \E i \in 1..n : StepsOf(r[1], r[2])[i] = "enable"
  BY DEF After
<1>5. After(StepsOf(r[1], r[2]), n) \in {"unset", "disabled", "enabled"}
  BY DEF After
<1> QED
  BY <1>1, <1>2, <1>3, <1>4, <1>5

(* The commands that set, enable, list and remove breakpoints.             *)
LEMMA BreakpointsKeep ==
  ASSUME SessionInv,
         \/ TargetSetBreakpoint \/ TargetEnableBreakpoint
         \/ TargetRemoveBreakpoint \/ TargetListBreakpoints
  PROVE  SessionInv'
<1>1. UNCHANGED <<captureVars, engineVars, fileVars, kind, pc>>
  BY DEF TargetSetBreakpoint, TargetEnableBreakpoint, TargetRemoveBreakpoint,
         TargetListBreakpoints
<1>2. /\ breakpoints' \in [BreakpointIds -> {"absent", "unset", "disabled", "enabled"}]
      /\ told' \subseteq BreakpointIds /\ unread' \subseteq BreakpointIds
      /\ ArmedIsKnown'
  <2>1. CASE TargetSetBreakpoint
    <3>1. CASE AddCompatibleFails
      BY <3>1 DEF AddCompatibleFails, SessionInv, TypeOK, ArmedIsKnown
    <3>2. ASSUME NEW r \in Requests, NEW b \in BreakpointIds,
                 NEW n \in 0..Len(StepsOf(r[1], r[2])),
                 AddBreakpoint(StepsOf(r[1], r[2]), b, n)
          PROVE  /\ breakpoints' \in [BreakpointIds -> {"absent", "unset", "disabled", "enabled"}]
                 /\ told' \subseteq BreakpointIds /\ unread' \subseteq BreakpointIds
                 /\ ArmedIsKnown'
      BY <3>2, EnabledIsReadNext DEF AddBreakpoint, SessionInv, TypeOK, ArmedIsKnown
    <3> QED
      BY <2>1, <3>1, <3>2 DEF TargetSetBreakpoint
  <2>2. CASE TargetEnableBreakpoint
    BY <2>2 DEF TargetEnableBreakpoint, SessionInv, TypeOK, ArmedIsKnown
  <2>3. CASE TargetRemoveBreakpoint
    BY <2>3 DEF TargetRemoveBreakpoint, SessionInv, TypeOK, ArmedIsKnown
  <2>4. CASE TargetListBreakpoints
    BY <2>4 DEF TargetListBreakpoints, SessionInv, TypeOK, ArmedIsKnown
  <2> QED
    BY <2>1, <2>2, <2>3, <2>4
<1>3. CaptureInv' /\ CaptureRuns' /\ Current'
  BY <1>1
  DEF captureVars, engineVars, SessionInv, CaptureInv, CaptureTypes, Counted, Remembered,
      OutputRestored, CaptureRuns, Current
<1>4. TypeOK'
  BY <1>1, <1>2 DEF engineVars, fileVars, SessionInv, TypeOK
<1> QED
  BY <1>2, <1>3, <1>4 DEF SessionInv

\* Steps that leave the capture alone.
LEMMA OthersKeep ==
  ASSUME SessionInv,
         \/ TargetContinue \/ TargetWait \/ Stops \/ WaitTimesOut \/ TargetThreadContext
         \/ TargetWriteDump \/ OtherWrites \/ DumpNotOpened \/ OpenDump \/ WriteDump
  PROVE  SessionInv'
<1>1. UNCHANGED <<captureVars, breakpointVars, kind>>
  BY DEF TargetContinue, TargetWait, Stops, WaitTimesOut, TargetThreadContext,
         TargetWriteDump, OtherWrites, DumpNotOpened, OpenDump, WriteDump
<1>2. TypeOK'
  <2>1. CASE TargetContinue \/ TargetWait \/ WaitTimesOut
    BY <1>1, <2>1
    DEF TargetContinue, SetStatus, TargetWait, WaitTimesOut, AfterWait, breakpointVars,
        engineVars, fileVars, SessionInv, TypeOK
  <2>2. CASE Stops
    <3>1. stops + 1 \in 0..MaxStops
      <4>1. stops \in 0..MaxStops /\ stops < MaxStops /\ MaxStops \in Nat
        BY <2>2, SessionAssumption DEF Stops, SessionInv, TypeOK, SessionAssumption
      <4> QED
        BY <4>1
    <3> QED
      BY <1>1, <2>2, <3>1
      DEF Stops, AfterWait, breakpointVars, fileVars, SessionInv, TypeOK
  <2>3. CASE TargetThreadContext
    BY <1>1, <2>3
    DEF TargetThreadContext, ThreadContext, breakpointVars, fileVars, SessionInv, TypeOK
  <2>4. CASE TargetWriteDump \/ OtherWrites \/ DumpNotOpened \/ OpenDump \/ WriteDump
    BY <1>1, <2>4
    DEF TargetWriteDump, OtherWrites, DumpNotOpened, OpenDump, WriteDump, breakpointVars,
        engineVars, SessionInv, TypeOK
  <2> QED
    BY <2>1, <2>2, <2>3, <2>4
<1>3. CaptureInv' /\ ArmedIsKnown'
  BY <1>1
  DEF captureVars, breakpointVars, SessionInv, CaptureInv, CaptureTypes, Counted, Remembered,
      OutputRestored, ArmedIsKnown
<1>4. CaptureRuns'
  BY <1>1
  DEF captureVars, SessionInv, CaptureRuns, TargetContinue, TargetWait, Stops, WaitTimesOut,
      AfterWait, Waiting, TargetThreadContext, TargetWriteDump, OtherWrites, DumpNotOpened,
      OpenDump, WriteDump
<1>5. Current'
  BY DEF SessionInv, TypeOK, Current, TargetContinue, SetStatus, TargetWait, Stops,
         WaitTimesOut, TargetThreadContext, ThreadContext, SwitchedBack, TargetWriteDump,
         OtherWrites, DumpNotOpened, OpenDump, WriteDump, engineVars
<1> QED
  BY <1>2, <1>3, <1>4, <1>5 DEF SessionInv

\* Steps of a run that may have a capture.
LEMMA RunsKeep ==
  ASSUME SessionInv, TargetContinueWait \/ DebuggeeWrites \/ RunEnds
  PROVE  SessionInv'
<1>1. UNCHANGED <<breakpointVars, fileVars, kind>>
  BY DEF TargetContinueWait, DebuggeeWrites, RunEnds
<1>2. /\ UNCHANGED <<thread, stops, stopThread, strayed>> /\ status' \in {status, "go"}
      /\ pc' \in {pc, "running", "idle"}
  BY DEF TargetContinueWait, ContinueAndWait, ContinueFails, SetStatus, DebuggeeWrites,
         RunEnds, engineVars
<1>3. TypeOK' /\ Current' /\ ArmedIsKnown'
  BY <1>1, <1>2
  DEF SessionInv, TypeOK, Current, ArmedIsKnown, breakpointVars, fileVars
<1>4. CaptureInv' /\ CaptureRuns'
  <2>1. ASSUME UNCHANGED captureVars
        PROVE  CaptureInv'
    BY <2>1
    DEF captureVars, SessionInv, CaptureInv, CaptureTypes, Counted, Remembered, OutputRestored
  <2>2. CASE TargetContinueWait
    <3>1. ~capture.active
      BY <2>2 DEF TargetContinueWait, SessionInv, CaptureRuns
    <3>2. CASE ContinueAndWait
      BY <2>1, <3>1, <3>2, BeginKeeps DEF ContinueAndWait, CaptureRuns, SessionInv
    <3>3. CASE ContinueFails
      <4>1. CaptureInv' /\ ~capture'.active
        BY <2>1, <3>1, <3>3, BeginFails DEF ContinueFails, captureVars, SessionInv
      <4> QED
        BY <4>1 DEF CaptureRuns
    <3> QED
      BY <2>2, <3>2, <3>3 DEF TargetContinueWait
  <2>3. CASE DebuggeeWrites
    <3>1. PICK category \in {"debuggee", "symbols"}, chars \in 0..MaxText :
            Output(category, chars)
      BY <2>3 DEF DebuggeeWrites
    <3>2. chars \in Nat
      BY SessionAssumption DEF SessionAssumption
    <3> QED
      BY <2>3, <3>1, <3>2, OutputKeeps DEF DebuggeeWrites, SessionInv, CaptureRuns
  <2>4. CASE RunEnds
    <3>1. CASE capture.active
      <4>1. PICK restored \in BOOLEAN : FinishCapture(restored)
        BY <2>4, <3>1 DEF RunEnds
      <4> QED
        BY <3>1, <4>1, FinishKeeps DEF SessionInv, CaptureRuns
    <3>2. CASE ~capture.active
      BY <2>1, <2>4, <3>2 DEF RunEnds, captureVars, CaptureRuns
    <3> QED
      BY <3>1, <3>2
  <2> QED
    BY <2>2, <2>3, <2>4
<1> QED
  BY <1>3, <1>4 DEF SessionInv

(* Every operation of the session keeps its invariant.                     *)
LEMMA OperationKeeps ==
  ASSUME SessionInv, Operation
  PROVE  SessionInv'
  BY BreakpointsKeep, OthersKeep, RunsKeep DEF Operation

(* A step of the cache alone leaves the session as it is.                  *)
LEMMA StutterKeepsSession ==
  ASSUME SessionInv, UNCHANGED sessionVars
  PROVE  SessionInv'
  BY DEF sessionVars, captureVars, engineVars, breakpointVars, fileVars, SessionInv, TypeOK,
         CaptureInv, CaptureTypes, Counted, Remembered, OutputRestored, CaptureRuns, Current,
         ArmedIsKnown

(* A step of the session leaves the cache as it is.                        *)
LEMMA StutterKeepsCache ==
  ASSUME CacheInv, UNCHANGED cacheVars
  PROVE  CacheInv'
  BY DEF cacheVars, storeVars, prefetchVars, CacheInv, CacheTypes, RenamesWhole, NoneReplaces,
         FoundIsThere, TemporaryIsRemoved

(* IInv is inductive.                                                      *)
LEMMA NextKeepsInvariant == IInv /\ [Next]_vars => IInv'
<1> SUFFICES ASSUME IInv, [Next]_vars PROVE IInv'
  OBVIOUS
<1>1. CASE Operation /\ UNCHANGED cacheVars
  BY <1>1, OperationKeeps, StutterKeepsCache DEF IInv
<1>2. CASE TargetPrefetches
  BY <1>2, CacheKeeps, StutterKeepsSession DEF IInv, TargetPrefetches
<1>3. CASE UNCHANGED vars
  BY <1>3, StutterKeepsSession, StutterKeepsCache DEF IInv, vars
<1> QED
  BY <1>1, <1>2, <1>3 DEF Next

(* The invariant holds for any limits, texts, threads and processes.       *)
THEOREM InvariantHolds == Spec => []IInv
  BY InitHolds, NextKeepsInvariant, PTL DEF Spec

(* Every variable of the session keeps to its values.                      *)
THEOREM TypesHold == Spec => []TypeOK
<1>1. IInv => TypeOK
  BY DEF IInv, SessionInv
<1> QED
  BY <1>1, InvariantHolds, PTL

(* No character of the debuggee's is lost uncounted, for any three limits, *)
(* any number of texts and texts of any length (record, snapshot).         *)
THEOREM NothingGoesUncounted == Spec => []NothingUncounted
<1>1. IInv => NothingUncounted
  BY NothingIsUncounted DEF IInv, SessionInv
<1> QED
  BY <1>1, InvariantHolds, PTL

(* The client's output is put back unless the engine refused twice, which  *)
(* ever call fails (finish, Drop, begin_debuggee_output_capture).          *)
THEOREM OutputIsRestored == Spec => []OutputRestored
<1>1. IInv => OutputRestored
  BY DEF IInv, SessionInv, CaptureInv
<1> QED
  BY <1>1, InvariantHolds, PTL

(* Between two calls the thread that stopped is current (thread_context).  *)
THEOREM StopThreadStaysCurrent == Spec => []StopThreadIsCurrent
<1>1. IInv => StopThreadIsCurrent
  BY DEF IInv, SessionInv, Current, StopThreadIsCurrent
<1> QED
  BY <1>1, InvariantHolds, PTL

(* No half-set breakpoint is armed behind the clients' back, for any ids   *)
(* (add_code_breakpoint, add_data_breakpoint).                             *)
THEOREM ArmedIsAlwaysKnown == Spec => []ArmedIsKnown
<1>1. IInv => ArmedIsKnown
  BY DEF IInv, SessionInv
<1> QED
  BY <1>1, InvariantHolds, PTL

(* What sessions have been pointed at in the cache is there, and no        *)
(* temporary file is in the way, however many processes share the cache    *)
(* and however often they die (prefetch_image, download_image_blocking).   *)
THEOREM CacheStaysSound == Spec => []CacheIsSound
<1>1. IInv => CacheIsSound
  BY DEF IInv, CacheInv, FoundIsThere, CacheIsSound, CachedImageMatches
<1> QED
  BY <1>1, InvariantHolds, PTL

(* A dump never replaces a file it was not to replace, whenever another    *)
(* program writes it (write_process_dump_file).                            *)
THEOREM ForeignFileIsKept == Spec => NoOverwriteKeepsFile
<1>1. [Next]_vars =>
        [pc = "dumping" /\ file # "absent" /\ ~overwrite => file' \in {file, "foreign"}]_vars
  <2> SUFFICES ASSUME [Next]_vars, pc = "dumping", file # "absent", ~overwrite
               PROVE  file' \in {file, "foreign"}
    OBVIOUS
  <2>1. CASE Operation
    BY <2>1
    DEF Operation, TargetContinue, TargetWait, TargetContinueWait, DebuggeeWrites, Stops,
        Waiting, WaitTimesOut, RunEnds, TargetThreadContext, TargetSetBreakpoint,
        TargetEnableBreakpoint, TargetRemoveBreakpoint, TargetListBreakpoints,
        TargetWriteDump, OtherWrites, DumpNotOpened, OpenDump, MayOpen, WriteDump
  <2>2. CASE UNCHANGED sessionVars
    BY <2>2 DEF sessionVars, fileVars
  <2> QED
    BY <2>1, <2>2 DEF Next, TargetPrefetches, vars
<1> QED
  BY <1>1, PTL DEF Spec, NoOverwriteKeepsFile

-----------------------------------------------------------------------------
(* The pure functions, for every input.                                    *)

(* The engine's own file decides whether a directory is selected.          *)
LEMMA WhatIsSelected ==
  ASSUME NEW named \in BOOLEAN, NEW directory \in Runtime!Directory
  PROVE  /\ Runtime!Selected(named, directory) \in {"explicit", "adjacent", "error", "system"}
         /\ Runtime!Selected(named, directory) \in {"explicit", "adjacent"}
              <=> directory[Runtime!Engine] # "absent"
BY DEF Runtime!Selected

(* A selected directory passes inspection exactly if its components are    *)
(* images of one machine; the system's engine always does.                 *)
LEMMA WhatIsInspected ==
  ASSUME NEW named \in BOOLEAN, NEW directory \in Runtime!Directory
  PROVE  LET source == Runtime!Selected(named, directory)
             inspected == Runtime!Inspected(source, directory)
         IN /\ inspected \in {"ok", "error"}
            /\ source = "error" => inspected = "error"
            /\ source = "system" => inspected = "ok"
            /\ source \in {"explicit", "adjacent"} =>
                 (inspected = "ok" <=>
                    /\ directory[Runtime!Engine] \in Runtime!Machines
                    /\ Runtime!OfOneMachine(directory))
BY WhatIsSelected DEF Runtime!Inspected, Runtime!OfOneMachine, Runtime!Engine, Runtime!Components

(* What is loaded is what was selected, and it was inspected before.       *)
LEMMA WhatIsLoaded ==
  ASSUME NEW named \in BOOLEAN, NEW directory \in Runtime!Directory, NEW host
  PROVE  LET source == Runtime!Selected(named, directory)
             load == Runtime!Load(named, directory, host)
         IN /\ load \in {source, "error"}
            /\ Runtime!Inspected(source, directory) = "error" => load = "error"
BY WhatIsSelected DEF Runtime!Load

(* However the runtime's files are replaced between two openings of one    *)
(* process, whatever LoadLibrary accepts and whatever the symbol path: an  *)
(* engine that is loaded stays the process's and was of one machine, a     *)
(* failed load is never made good, a runtime that does not fit spoils      *)
(* nothing, and who is refused early leaves no target behind               *)
(* (open_dump_session_impl, ensure_dbgeng_runtime_loaded).                 *)
THEOREM EngineIsShared ==
  ASSUME NEW named \in BOOLEAN, NEW started \in BOOLEAN, NEW event \in BOOLEAN,
         NEW before \in Runtime!Directory, NEW after \in Runtime!Directory, NEW host, NEW path
  PROVE  Runtime!SharedEngine(named, before, after, host, path, started, event)
<1> DEFINE first == Runtime!OpenSession("unset", named, before, host, path, started, event)
           second == Runtime!OpenSession(first.loaded, named, after, host, <<>>, TRUE, TRUE)
           remote == Runtime!StartServer(first.loaded, named, after, host, TRUE)
           source == Runtime!Selected(named, before)
           load == Runtime!Load(named, before, host)
           fits == Runtime!Inspected(source, before) = "ok"
           source2 == Runtime!Selected(named, after)
           load2 == Runtime!Load(named, after, host)
           fits2 == Runtime!Inspected(source2, after) = "ok"
\* What the first opening comes to.
<1>1. /\ first.loaded = IF fits THEN load ELSE "unset"
      /\ first.source = IF fits /\ load # "error" /\ Runtime!PathAccepted(path) /\ started /\ event
                        THEN source ELSE "error"
      /\ first.target = IF fits /\ load # "error" /\ Runtime!PathAccepted(path) /\ started
                        THEN IF event THEN "debugged" ELSE "left"
                        ELSE "untouched"
  BY WhatIsInspected DEF Runtime!OpenSession, Runtime!Refusal, Runtime!LoadedOnce
<1> HIDE DEF first
<1>2. Runtime!PathAccepted(<<>>)
  BY DEF Runtime!PathAccepted
\* What is loaded afterwards, and by whom.
<1>3. /\ first.loaded # "unset" => second.loaded = first.loaded
      /\ first.loaded = "error" => second.source = "error" /\ remote.source = "error"
      /\ first.loaded \notin {"unset", "error"} => remote.source = first.loaded
      /\ first.loaded = "unset" /\ load2 # "error" => second.source = source2
  <2>1. second.loaded = IF fits2 THEN Runtime!LoadedOnce(first.loaded, load2) ELSE first.loaded
    BY WhatIsInspected DEF Runtime!OpenSession, Runtime!Refusal
  <2>2. second.source = IF fits2 /\ Runtime!LoadedOnce(first.loaded, load2) # "error"
                        THEN source2 ELSE "error"
    BY <1>2, WhatIsInspected DEF Runtime!OpenSession, Runtime!Refusal
  <2>3. remote.source = IF Runtime!LoadedOnce(first.loaded, load2) # "error"
                        THEN Runtime!LoadedOnce(first.loaded, load2) ELSE "error"
    BY DEF Runtime!StartServer, Runtime!Refusal
  <2>4. load2 # "error" => fits2
    BY WhatIsLoaded, WhatIsInspected
  <2> HIDE DEF second, remote, load2, fits2, source2
  <2> QED
    BY <2>1, <2>2, <2>3, <2>4 DEF Runtime!LoadedOnce
<1>4. load2 # "error" => source2 # "error"
  BY WhatIsLoaded, WhatIsInspected
<1>5. fits <=> \/ source = "system"
               \/ /\ source \in {"explicit", "adjacent"}
                  /\ before[Runtime!Engine] \in Runtime!Machines /\ Runtime!OfOneMachine(before)
  BY WhatIsInspected, WhatIsSelected
<1>6. load \in {source, "error"}
  BY WhatIsLoaded
<1>7. source \in {"explicit", "adjacent"} <=> before[Runtime!Engine] # "absent"
  BY WhatIsSelected
<1>8. "absent" \notin Runtime!Machines
  BY DEF Runtime!Machines
<1>9. source \in {"explicit", "adjacent", "error", "system"}
  BY WhatIsSelected
<1>10. (\E c \in Runtime!Components : before[c] # before[Runtime!Engine]) <=> ~Runtime!OfOneMachine(before)
  BY DEF Runtime!OfOneMachine
<1> HIDE DEF second, remote, source, load, fits, source2, load2, fits2
<1>11. first.loaded \notin {"unset", "error"} => first.loaded = source /\ fits
  BY <1>1, <1>6
<1>12. first.source # "error" => first.loaded = first.source /\ second.loaded = first.loaded
  BY <1>1, <1>3, <1>6, <1>9
<1>13. first.loaded \in {"explicit", "adjacent"} => Runtime!OfOneMachine(before)
  BY <1>5, <1>11
<1>14. first.loaded = "unset" => ~Runtime!OfOneMachine(before) \/ before[Runtime!Engine] \notin Runtime!Machines
  BY <1>1, <1>5, <1>6, <1>7, <1>8, <1>9
<1>15. ~Runtime!OfOneMachine(before) /\ before[Runtime!Engine] \in Runtime!Machines =>
         first.loaded = "unset" /\ (load2 # "error" => second.source # "error")
  BY <1>1, <1>3, <1>4, <1>5, <1>7, <1>8
<1>16. /\ first.target = "left" => started /\ Runtime!PathAccepted(path) /\ ~event
       /\ first.target = "untouched" => first.source = "error"
  BY <1>1
<1> QED
  BY <1>3, <1>10, <1>12, <1>13, <1>14, <1>15, <1>16
  DEF Runtime!SharedEngine, first, second, remote, load2

(* A stack that is reported captured has all its frames, and each of them  *)
(* is in a module: it was neither cut at the limit nor ended by an invalid *)
(* frame (stack_trace_from_offsets).                                       *)
THEOREM CapturedStackIsWhole ==
  ASSUME NEW stack \in Seq(BOOLEAN), NEW maxFrames \in Nat \ {0},
         StackTrace(Shortest(stack, maxFrames), maxFrames).status = "captured"
  PROVE  /\ StackTrace(Shortest(stack, maxFrames), maxFrames).valid = Len(stack)
         /\ \A i \in 1..Len(stack) : stack[i]
<1> DEFINE frames == Shortest(stack, maxFrames)
           invalid == {i \in DOMAIN frames : ~frames[i]}
<1>1. /\ frames \in Seq(BOOLEAN)
      /\ Len(frames) = IF Len(stack) < maxFrames THEN Len(stack) ELSE maxFrames
      /\ \A i \in 1..Len(frames) : frames[i] = stack[i]
  BY DEF Shortest
<1> HIDE DEF frames
<1>2. frames # <<>> /\ invalid = {} /\ Len(frames) # maxFrames
  BY DEF StackTrace, frames
<1>3. StackTrace(frames, maxFrames).valid = Len(frames)
  BY <1>2 DEF StackTrace
<1>4. Len(frames) = Len(stack)
  BY <1>1, <1>2
<1>5. \A i \in 1..Len(stack) : stack[i]
  BY <1>1, <1>2, <1>4
<1> QED
  BY <1>3, <1>4, <1>5 DEF frames

(* Captured thread accounting has every thread, and read the basic         *)
(* information of each (thread_accounting_snapshot).                       *)
THEOREM CapturedAccountingIsWhole ==
  ASSUME NEW threads \in Seq(BOOLEAN), NEW maxThreads \in Nat, NEW advanced \in BOOLEAN,
         ThreadAccounting(threads, maxThreads, advanced).status = "captured"
  PROVE  /\ ThreadAccounting(threads, maxThreads, advanced).returned = Len(threads)
         /\ \A i \in 1..Len(threads) : threads[i]
<1> DEFINE total == Len(threads)
           returned == IF ~advanced THEN 0 ELSE IF total > maxThreads THEN maxThreads ELSE total
           missing == {i \in 1..returned : ~threads[i]}
<1>1. total \in Nat /\ returned \in Nat /\ returned <= total
  OBVIOUS
<1>2. IsFiniteSet(missing) /\ Cardinality(missing) \in Nat
  <2> HIDE DEF returned
  <2>1. IsFiniteSet(1..returned)
    BY <1>1, FS_Interval
  <2> QED
    BY <2>1, FS_Subset, FS_CardinalityType
<1>3. ~(total > maxThreads) /\ ~(Cardinality(missing) > 0) /\ returned # 0
  BY DEF ThreadAccounting
<1>6. ThreadAccounting(threads, maxThreads, advanced).returned = returned
  BY DEF ThreadAccounting
<1>4. returned = total
  BY <1>1, <1>3
<1>5. missing = {}
  <2> HIDE DEF missing
  <2>1. Cardinality(missing) = 0
    BY <1>2, <1>3
  <2> QED
    BY <1>2, <2>1, FS_EmptySet
<1> QED
  BY <1>4, <1>5, <1>6

(* A set of numbers that is not empty has a least one.                     *)
LEMMA SetsOfNumbersHaveALeast ==
  ASSUME NEW S \in SUBSET Nat, S # {}
  PROVE  \E least \in S : \A n \in S : least <= n
<1>1. PICK least \in S : \A n \in S : <<n, least>> \notin OpToRel(<, Nat)
  BY WFMin, NatLessThanWellFounded
<1>2. \A n \in S : ~(n < least)
  BY <1>1 DEF OpToRel
<1> QED
  BY <1>2

(* find_module_by_path answers the first module that matches, or none.     *)
LEMMA FirstThatMatches ==
  ASSUME NEW modules, NEW expected, Len(modules) \in Nat
  PROVE  LET found == Clr!FindModule(expected, modules)
             Matching == {i \in 1..Len(modules) : Clr!PathsMatch(expected, modules[i].path)}
         IN /\ Matching = {} => found = 0
            /\ Matching # {} => found \in Matching /\ \A i \in Matching : found <= i
<1> DEFINE Matching == {i \in 1..Len(modules) : Clr!PathsMatch(expected, modules[i].path)}
<1>1. CASE Matching = {}
  BY <1>1 DEF Clr!FindModule, Clr!SelectInSeq
<1>2. CASE Matching # {}
  <2>1. Matching \subseteq Nat
    OBVIOUS
  <2>2. \E i \in Matching : \A j \in Matching : i <= j
    BY <1>2, <2>1, SetsOfNumbersHaveALeast
  <2>3. Clr!FindModule(expected, modules) = Clr!Min(Matching)
    BY <1>2 DEF Clr!FindModule, Clr!SelectInSeq
  <2> QED
    BY <1>2, <2>2, <2>3 DEF Clr!Min
<1> QED
  BY <1>1, <1>2

(* Modules that are listed later do not take the place of one that was     *)
(* found (find_module_by_path).                                            *)
THEOREM LaterModulesChangeNothing ==
  ASSUME NEW Module, NEW modules \in Seq(Module), NEW later \in Seq(Module), NEW expected,
         Clr!FindModule(expected, modules) # 0
  PROVE  Clr!FindModule(expected, modules \o later) = Clr!FindModule(expected, modules)
<1> DEFINE all == modules \o later
           Matching(ms) == {i \in 1..Len(ms) : Clr!PathsMatch(expected, ms[i].path)}
           found == Clr!FindModule(expected, modules)
<1>1. /\ all \in Seq(Module) /\ Len(all) \in Nat /\ Len(modules) \in Nat
      /\ Len(modules) <= Len(all)
      /\ \A i \in 1..Len(modules) : all[i] = modules[i]
  OBVIOUS
<1> HIDE DEF all
<1>2. found \in Matching(modules) /\ \A i \in Matching(modules) : found <= i
  BY <1>1, FirstThatMatches
<1>3. Matching(modules) = Matching(all) \cap 1..Len(modules)
  BY <1>1
<1>4. found \in Matching(all)
  BY <1>2, <1>3
<1>5. \A i \in Matching(all) : found <= i
  BY <1>1, <1>2, <1>3
<1>6. /\ Clr!FindModule(expected, all) \in Matching(all)
      /\ \A i \in Matching(all) : Clr!FindModule(expected, all) <= i
  BY <1>1, <1>4, FirstThatMatches
<1>7. Clr!FindModule(expected, all) <= found /\ found <= Clr!FindModule(expected, all)
  BY <1>4, <1>5, <1>6
<1> HIDE DEF found
<1> QED
  BY <1>1, <1>2, <1>6, <1>7 DEF all, found

(* A method that was resolved is found again, in the same module, however  *)
(* many modules have been loaded since: a managed breakpoint is set in the *)
(* module that was asked for first (refresh_method_code).                  *)
THEOREM RefreshFindsTheResolved ==
  ASSUME NEW Module, NEW modules \in Seq(Module), NEW later \in Seq(Module), NEW expected,
         NEW selector, NEW signatures, NEW instances,
         Clr!Resolve(expected, selector, modules, signatures).ok,
         Clr!EntryAddress(instances) \notin {"none", "error"}
  PROVE  LET resolved == Clr!Resolve(expected, selector, modules, signatures)
         IN Clr!Refresh(expected, resolved.token, modules \o later, instances)
              = [module |-> resolved.module, token |-> resolved.token]
<1> DEFINE resolved == Clr!Resolve(expected, selector, modules, signatures)
           found == Clr!FindModule(expected, modules)
<1>1. found # 0 /\ resolved.module = found
  BY DEF Clr!Resolve, Clr!Unresolved
<1>2. Clr!FindModule(expected, modules \o later) = found
  BY <1>1, LaterModulesChangeNothing
<1> HIDE DEF resolved, found
<1>3. Clr!Refresh(expected, resolved.token, modules \o later, instances)
        = [module |-> found, token |-> resolved.token]
  BY <1>1, <1>2 DEF Clr!Refresh
<1> QED
  BY <1>1, <1>3 DEF resolved

\* The functions on 0..n that start at first and go on as onward says.
Runs(n, S, first, onward) ==
  {f \in [0..n -> S] : f[0] = first /\ \A m \in 0..(n - 1) : f[m + 1] = onward[m][f[m]]}

\* A start in S and a step from every number, and what they define.
Recursion(S, first, onward) == first \in S /\ onward \in [Nat -> [S -> S]]
Defined(f, S, first, onward) ==
  f \in [Nat -> S] /\ f[0] = first /\ \A n \in Nat : f[n + 1] = onward[n][f[n]]

(* What is defined by recursion on the numbers exists: without this, what  *)
(* a recursive function of the model computes is unknown to the prover.    *)
LEMMA RecursionDefines ==
  ASSUME NEW S, NEW first, NEW onward, Recursion(S, first, onward)
  PROVE  \E f : Defined(f, S, first, onward)
<1> first \in S /\ onward \in [Nat -> [S -> S]]
  BY DEF Recursion
<1> DEFINE Without == {n \in Nat : Runs(n, S, first, onward) = {}}
\* Each of them can be continued ...
<1>1. Without = {}
  <2> SUFFICES ASSUME Without # {}
               PROVE  FALSE
    OBVIOUS
  <2>1. PICK n \in Without : \A m \in Without : n <= m
    BY SetsOfNumbersHaveALeast
  <2>4. n \in Nat
    OBVIOUS
  <2>2. CASE n = 0
    <3>1. [m \in 0..0 |-> first] \in Runs(0, S, first, onward)
      BY DEF Runs
    <3> QED
      BY <2>1, <2>2, <3>1
  <2>3. CASE n # 0
    <3>1. n \in Nat /\ n - 1 \in Nat /\ n - 1 \notin Without
      <4> HIDE DEF Without
      <4> QED
        BY <2>1, <2>3, <2>4
    <3>2. PICK f \in [0..(n - 1) -> S] :
             f[0] = first /\ \A m \in 0..((n - 1) - 1) : f[m + 1] = onward[m][f[m]]
      BY <3>1 DEF Runs
    <3> DEFINE g == [m \in 0..n |-> IF m = n THEN onward[n - 1][f[n - 1]] ELSE f[m]]
    <3>3. g \in [0..n -> S]
      <4> SUFFICES ASSUME NEW m \in 0..n
                   PROVE  (IF m = n THEN onward[n - 1][f[n - 1]] ELSE f[m]) \in S
        OBVIOUS
      <4>1. f[n - 1] \in S
        BY <3>1, <3>2
      <4>2. onward[n - 1][f[n - 1]] \in S
        BY <3>1, <4>1
      <4>3. m # n => m \in 0..(n - 1)
        BY <3>1
      <4> QED
        BY <3>2, <4>2, <4>3
    <3>4. g[0] = first
      BY <2>3, <3>1, <3>2
    <3>5. ASSUME NEW m \in 0..(n - 1)
          PROVE  g[m + 1] = onward[m][g[m]]
      <4>1. m # n /\ m \in 0..n /\ m + 1 \in 0..n
        BY <3>1
      <4>2. g[m] = f[m]
        BY <4>1
      <4>3. CASE m + 1 = n
        BY <3>1, <4>1, <4>2, <4>3
      <4>4. CASE m + 1 # n
        <5>1. m \in 0..((n - 1) - 1)
          BY <3>1, <4>4
        <5> QED
          BY <3>2, <4>1, <4>2, <4>4, <5>1
      <4> QED
        BY <4>3, <4>4
    <3>6. g \in Runs(n, S, first, onward)
      BY <3>3, <3>4, <3>5 DEF Runs
    <3> QED
      BY <2>1, <3>6
  <2> QED
    BY <2>2, <2>3
\* ... and agrees with all the others.
<1>2. ASSUME NEW n \in Nat, NEW f \in Runs(n, S, first, onward),
             NEW k \in Nat, NEW g \in Runs(k, S, first, onward), n <= k
      PROVE  \A m \in 0..n : f[m] = g[m]
  <2> DEFINE Differ == {m \in 0..n : f[m] # g[m]}
  <2> SUFFICES ASSUME Differ # {}
               PROVE  FALSE
    OBVIOUS
  <2>1. Differ \in SUBSET Nat
    OBVIOUS
  <2> HIDE DEF Differ
  <2>2. PICK m \in Differ : \A d \in Differ : m <= d
    BY <2>1, SetsOfNumbersHaveALeast
  <2>3. m \in 0..n /\ f[m] # g[m]
    BY <2>2 DEF Differ
  <2>4. m # 0
    BY <1>2, <2>3 DEF Runs
  <2>5. m - 1 \in 0..(n - 1) /\ m - 1 \in 0..(k - 1) /\ m - 1 \notin Differ /\ (m - 1) + 1 = m
    BY <1>2, <2>1, <2>2, <2>3, <2>4
  <2>6. f[m - 1] = g[m - 1]
    BY <2>5 DEF Differ
  <2> QED
    BY <2>3, <2>5, <2>6 DEF Runs
<1> DEFINE run == [n \in Nat |-> CHOOSE f \in Runs(n, S, first, onward) : TRUE]
           all == [n \in Nat |-> run[n][n]]
<1>3. \A n \in Nat : run[n] \in Runs(n, S, first, onward)
  BY <1>1
<1>4. all \in [Nat -> S] /\ all[0] = first
  <2> HIDE DEF run
  <2> QED
    BY <1>3 DEF Runs
<1>5. ASSUME NEW n \in Nat
      PROVE  all[n + 1] = onward[n][all[n]]
  <2> HIDE DEF run
  <2>1. n + 1 \in Nat /\ n <= n + 1 /\ n \in 0..n /\ n \in 0..((n + 1) - 1)
    OBVIOUS
  <2>2. run[n + 1][n] = run[n][n]
    BY <1>2, <1>3, <2>1
  <2>3. run[n + 1][n + 1] = onward[n][run[n + 1][n]]
    BY <1>3, <2>1 DEF Runs
  <2> QED
    BY <2>1, <2>2, <2>3
<1> HIDE DEF all
<1>6. Defined(all, S, first, onward)
  BY <1>4, <1>5 DEF Defined
<1> QED
  BY <1>6

\* A map that was cut short at an address, and one of the whole space.
Cut(outcome, n, at) == MapResult(outcome, n, TRUE, at)
Exhausted(n) == MapResult("address_space_exhausted", n, FALSE, 0)

(* What a memory map is continued with at an address, once its n regions   *)
(* are known; rest is the map from there with one region more.             *)
MapStep(query, space, n, at, rest) ==
  LET r == query[at]
  IN IF r = NoRegion
     THEN Cut(IF n = 0 THEN "unavailable" ELSE "partial_query_error", n, at)
     ELSE IF r.size = 0 THEN Cut("failed", n, at)
     ELSE IF r.base + r.size >= space \/ r.base + r.size <= at THEN Exhausted(n + 1)
     ELSE rest[r.base + r.size]

\* from[n][at] is the map from `at` on when n regions have been found.
Maps(from, query, space, limit) ==
  from = [n \in 0..limit |-> [at \in 0..(space - 1) |->
           IF n = limit THEN Cut("bounded", n, at)
           ELSE MapStep(query, space, n, at, from[n + 1])]]

\* What QueryVirtual may answer in a space of so many addresses.
Answers(space) ==
  [0..(space - 1) -> [base : Nat, size : Nat \ {0}] \cup {NoRegion}]

(* The maps from every address exist (virtual_memory_map).                 *)
LEMMA MapsExist ==
  ASSUME NEW space \in Nat, NEW limit \in Nat, NEW query \in Answers(space)
  PROVE  \E from : Maps(from, query, space, limit)
<1> DEFINE outcomes == {"bounded", "unavailable", "partial_query_error", "failed"}
           Result == {Cut(outcome, n, a) : outcome \in outcomes, n \in Nat, a \in Nat}
                       \cup {Exhausted(n) : n \in Nat}
           S == [0..(space - 1) -> Result]
           first == [at \in 0..(space - 1) |-> Cut("bounded", limit, at)]
           onward == [k \in Nat |-> [rest \in S |-> [at \in 0..(space - 1) |->
                     IF k + 1 <= limit THEN MapStep(query, space, limit - (k + 1), at, rest)
                     ELSE Cut("bounded", 0, at)]]]
<1>1. \A n \in Nat, a \in Nat :
        /\ Cut("bounded", n, a) \in Result
        /\ Cut("unavailable", n, a) \in Result
        /\ Cut("partial_query_error", n, a) \in Result
        /\ Cut("failed", n, a) \in Result
        /\ Exhausted(n + 1) \in Result
  OBVIOUS
<1> HIDE DEF Result
<1>2. first \in S
  <2> SUFFICES ASSUME NEW at \in 0..(space - 1)
               PROVE  Cut("bounded", limit, at) \in Result
    OBVIOUS
  <2> QED
    BY <1>1
<1>3. ASSUME NEW k \in Nat, k + 1 <= limit, NEW rest \in S, NEW at \in 0..(space - 1)
      PROVE  MapStep(query, space, limit - (k + 1), at, rest) \in Result
  <2> DEFINE n == limit - (k + 1)
  <2>1. n \in Nat /\ n + 1 \in Nat /\ at \in Nat
    BY <1>3
  <2>2. query[at] \in [base : Nat, size : Nat \ {0}] \cup {NoRegion}
    BY DEF Answers
  <2> HIDE DEF n
  <2>3. ASSUME query[at] = NoRegion
       PROVE  MapStep(query, space, n, at, rest) \in Result
    <3>1. MapStep(query, space, n, at, rest)
            \in {Cut("unavailable", n, at), Cut("partial_query_error", n, at)}
      BY <2>3 DEF MapStep
    <3> QED
      BY <1>1, <2>1, <3>1
  <2>4. ASSUME query[at] # NoRegion
       PROVE  MapStep(query, space, n, at, rest) \in Result
    <3>1. query[at].base \in Nat /\ query[at].size \in Nat
      BY <2>2, <2>4
    <3> DEFINE end == query[at].base + query[at].size
    <3>2. end \in Nat
      BY <3>1
    <3>3. end < space => rest[end] \in Result
      BY <3>2
    <3>4. MapStep(query, space, n, at, rest) \in
             {Cut("failed", n, at),
              Exhausted(n + 1)}
             \/ (end < space /\ MapStep(query, space, n, at, rest) = rest[end])
      <4>1. ~(end >= space) => end < space
        BY <3>2
      <4> QED
        BY <2>4, <4>1 DEF MapStep
    <3> HIDE DEF end
    <3> QED
      BY <1>1, <2>1, <3>3, <3>4
  <2> QED
    BY <2>3, <2>4 DEF n
<1>4. onward \in [Nat -> [S -> S]]
  <2> SUFFICES ASSUME NEW k \in Nat, NEW rest \in S, NEW at \in 0..(space - 1)
               PROVE  (IF k + 1 <= limit THEN MapStep(query, space, limit - (k + 1), at, rest)
                       ELSE Cut("bounded", 0, at)) \in Result
    OBVIOUS
  <2> QED
    BY <1>1, <1>3
<1>5. PICK g : Defined(g, S, first, onward)
  <2> HIDE DEF S, first, onward
  <2>1. Recursion(S, first, onward)
    BY <1>2, <1>4 DEF Recursion
  <2> QED
    BY <2>1, RecursionDefines
<1>8. g \in [Nat -> S] /\ g[0] = first /\ \A k \in Nat : g[k + 1] = onward[k][g[k]]
  <2> HIDE DEF S, first, onward
  <2> QED
    BY <1>5 DEF Defined
<1> DEFINE from == [n \in 0..limit |-> g[limit - n]]
<1>6. ASSUME NEW n \in 0..limit, NEW at \in 0..(space - 1)
      PROVE  from[n][at] = IF n = limit THEN Cut("bounded", n, at)
                           ELSE MapStep(query, space, n, at, from[n + 1])
  <2>1. CASE n = limit
    <3>1. from[n] = g[0]
      BY <2>1
    <3> QED
      BY <1>8, <2>1, <3>1
  <2>2. CASE n # limit
    <3> DEFINE k == limit - (n + 1)
    <3>1. k \in Nat /\ limit - n = k + 1 /\ k + 1 <= limit /\ limit - (k + 1) = n /\ n + 1 \in 0..limit
      BY <2>2
    <3> HIDE DEF k
    <3>2. from[n] = onward[k][g[k]]
      BY <1>8, <3>1
    <3>3. from[n + 1] = g[k]
      BY <3>1 DEF k
    <3>4. g[k] \in S
      BY <1>8, <3>1
    <3>5. onward[k][g[k]][at] = MapStep(query, space, n, at, g[k])
      BY <3>1, <3>4
    <3> QED
      BY <2>2, <3>2, <3>3, <3>5
  <2> QED
    BY <2>1, <2>2
<1>7. from = [n \in 0..limit |-> [at \in 0..(space - 1) |->
               IF n = limit THEN Cut("bounded", n, at)
               ELSE MapStep(query, space, n, at, from[n + 1])]]
  <2>1. \A n \in 0..limit : from[n] \in S
    BY <1>8
  <2> DEFINE by(n) == [at \in 0..(space - 1) |->
               IF n = limit THEN Cut("bounded", n, at)
               ELSE MapStep(query, space, n, at, from[n + 1])]
  <2>2. \A n \in 0..limit : from[n] = by(n)
    <3> SUFFICES ASSUME NEW n \in 0..limit
                 PROVE  from[n] = by(n)
      OBVIOUS
    <3>1. from[n] \in S
      BY <2>1
    <3> HIDE DEF from
    <3> QED
      BY <1>6, <3>1
  <2>3. from = [n \in 0..limit |-> from[n]]
    OBVIOUS
  <2> HIDE DEF from
  <2> QED
    BY <2>2, <2>3
<1> HIDE DEF from
<1> QED
  BY <1>7, Zenon DEF Maps

\* QueryVirtual answers the region that holds an address or the next one above.
RegionsOf(query, space) ==
  /\ query \in Answers(space)
  /\ \A a \in 0..(space - 1) : query[a] # NoRegion =>
       /\ query[a].base + query[a].size > a /\ query[a].base + query[a].size <= space
       /\ \A b \in 0..(space - 1) :
            (a <= b \/ query[a].base <= b) /\ b < query[a].base + query[a].size
              => query[b] = query[a]

\* The regions from an address on.
Above(query, space, at) == {query[a] : a \in at..(space - 1)} \ {NoRegion}

(* A map that says that the address space is exhausted has all regions,    *)
(* whatever the limit: no region is left out and none is there twice       *)
(* (virtual_memory_map).                                                   *)
THEOREM CapturedMapIsWhole ==
  ASSUME NEW space \in Nat \ {0}, NEW limit \in Nat, NEW query, RegionsOf(query, space),
         MemoryMap(query, space, limit).status = "address_space_exhausted"
  PROVE  /\ IsFiniteSet(Above(query, space, 0))
         /\ MemoryMap(query, space, limit).regions = Cardinality(Above(query, space, 0))
         /\ MemoryMap(query, space, limit).regions > 0
<1> DEFINE from == CHOOSE f : Maps(f, query, space, limit)
           Found(n, at) == from[n][at].status = "address_space_exhausted"
           Whole(n, at) ==
             /\ IsFiniteSet(Above(query, space, at))
             /\ from[n][at].regions = n + Cardinality(Above(query, space, at))
             /\ Cardinality(Above(query, space, at)) \in Nat \ {0}
           Bad == {d \in Nat : \E n \in 0..limit, at \in 0..(space - 1) :
                                 d = space - at /\ Found(n, at) /\ ~Whole(n, at)}
<1>1. MemoryMap(query, space, limit) = from[0][0]
  BY Zenon DEF MemoryMap, Maps, MapStep, Cut, Exhausted
<1>2. query \in Answers(space)
  BY DEF RegionsOf
<1>3. Maps(from, query, space, limit)
  BY <1>2, MapsExist
<1> HIDE DEF from
\* The map from an address on, in terms of the one from the end of its first region.
<1>4. ASSUME NEW n \in 0..limit, NEW at \in 0..(space - 1), Found(n, at)
      PROVE  /\ n + 1 \in 0..limit /\ query[at] # NoRegion
             /\ query[at].base \in Nat /\ query[at].size \in Nat
             /\ LET end == query[at].base + query[at].size
                IN IF end >= space \/ end <= at
                   THEN from[n][at].regions = n + 1
                   ELSE from[n][at] = from[n + 1][end]
  <2>1. from[n][at] = IF n = limit THEN Cut("bounded", n, at)
                      ELSE MapStep(query, space, n, at, from[n + 1])
    <3>1. from[n] = [a \in 0..(space - 1) |->
                      IF n = limit THEN Cut("bounded", n, a)
                      ELSE MapStep(query, space, n, a, from[n + 1])]
      BY <1>3, Zenon DEF Maps
    <3> QED
      BY <3>1, Zenon
  <2>2. \A outcome : Cut(outcome, n, at).status = outcome
    BY DEF Cut, MapResult
  <2>3. Exhausted(n + 1).regions = n + 1
    BY DEF Exhausted, MapResult
  <2>4. n # limit
    BY <1>4, <2>1, <2>2
  <2>5. query[at] \in [base : Nat, size : Nat \ {0}] \cup {NoRegion}
    BY <1>2 DEF Answers
  <2>6. query[at] # NoRegion
    BY <1>4, <2>1, <2>2, <2>4 DEF MapStep
  <2>7. query[at].base \in Nat /\ query[at].size \in Nat /\ query[at].size # 0
    BY <2>5, <2>6
  <2>8. from[n][at] = LET end == query[at].base + query[at].size
                      IN IF end >= space \/ end <= at THEN Exhausted(n + 1)
                         ELSE from[n + 1][end]
    BY <2>1, <2>4, <2>6, <2>7 DEF MapStep
  <2> QED
    BY <2>3, <2>4, <2>6, <2>7, <2>8
<1>5. Bad = {}
  <2> SUFFICES ASSUME Bad # {}
               PROVE  FALSE
    OBVIOUS
  <2>1. PICK d \in Bad : \A e \in Bad : d <= e
    <3>1. Bad \in SUBSET Nat
      OBVIOUS
    <3> HIDE DEF Bad
    <3> QED
      BY <3>1, SetsOfNumbersHaveALeast
  <2>2. PICK n \in 0..limit, at \in 0..(space - 1) : d = space - at /\ Found(n, at) /\ ~Whole(n, at)
    BY <2>1
  <2> DEFINE r == query[at]
             end == r.base + r.size
  <2>3. /\ n + 1 \in 0..limit /\ r # NoRegion /\ end \in Nat
        /\ IF end >= space \/ end <= at
           THEN from[n][at].regions = n + 1
           ELSE from[n][at] = from[n + 1][end]
    BY <1>4, <2>2
  <2>4. /\ end > at /\ end <= space
        /\ \A b \in 0..(space - 1) : at <= b /\ b < end => query[b] = r
    BY <2>3 DEF RegionsOf
  <2> HIDE DEF r, end, Found, Bad
  \* Past the first region are the others, and it is not one of them.
  <2>5. Above(query, space, at) = {r} \cup Above(query, space, end)
    <3>1. ASSUME NEW a \in at..(space - 1)
          PROVE  query[a] = r \/ a \in end..(space - 1)
      BY <2>3, <2>4, <3>1
    <3>2. r \in Above(query, space, at)
      <4>1. query[at] = r /\ at \in at..(space - 1)
        BY <2>3, <2>4
      <4> QED
        BY <2>3, <4>1 DEF Above
    <3>3. end..(space - 1) \subseteq at..(space - 1)
      BY <2>3, <2>4
    <3> QED
      BY <3>1, <3>2, <3>3 DEF Above
  <2>6. CASE end = space
    <3>1. Above(query, space, end) = {}
      BY <2>3, <2>6 DEF Above
    <3>2. Above(query, space, at) = {r}
      BY <2>5, <3>1
    <3>3. IsFiniteSet({r}) /\ Cardinality({r}) = 1
      BY FS_Singleton
    <3>4. from[n][at].regions = n + 1
      BY <2>3, <2>6
    <3>5. Whole(n, at)
      BY <3>2, <3>3, <3>4
    <3> QED
      BY <2>2, <3>5
  <2>7. CASE end # space
    <3>1. end \in 0..(space - 1) /\ from[n][at] = from[n + 1][end]
      BY <2>3, <2>4, <2>7
    <3>2. Found(n + 1, end)
      BY <2>2, <3>1 DEF Found
    <3>3. Whole(n + 1, end)
      <4>1. space - end \in Nat /\ space - end < d
        BY <2>2, <2>4, <3>1
      <4>2. space - end \notin Bad
        <5>1. d \in Nat
          BY <2>2
        <5> QED
          BY <2>1, <4>1, <5>1
      <4> HIDE DEF Whole
      <4> QED
        BY <2>3, <3>1, <3>2, <4>1, <4>2 DEF Bad
    <3>4. r \notin Above(query, space, end)
      <4> SUFFICES ASSUME NEW a \in end..(space - 1), query[a] = r
                   PROVE  FALSE
        BY DEF Above
      <4>1. a \in 0..(space - 1) /\ query[a] # NoRegion
        BY <2>3, <3>1
      <4>2. query[a].base + query[a].size > a
        BY <4>1 DEF RegionsOf
      <4>3. end > a
        BY <4>2 DEF end
      <4> QED
        BY <2>3, <4>3
    <3>5. /\ IsFiniteSet(Above(query, space, at))
          /\ Cardinality(Above(query, space, at)) = Cardinality(Above(query, space, end)) + 1
      <4>1. IsFiniteSet(Above(query, space, end))
        BY <3>3
      <4>2. Above(query, space, at) = Above(query, space, end) \cup {r}
        BY <2>5
      <4> QED
        BY <3>4, <4>1, <4>2, FS_AddElement
    <3>6. Whole(n, at)
      BY <3>1, <3>3, <3>5
    <3> QED
      BY <2>2, <3>6
  <2> QED
    BY <2>3, <2>4, <2>6, <2>7
<1>6. Found(0, 0)
  BY <1>1
<1>7. Whole(0, 0)
  <2>1. space \in Nat /\ space - 0 = space /\ 0 \in 0..limit /\ 0 \in 0..(space - 1)
    OBVIOUS
  <2> HIDE DEF Found, Whole
  <2> QED
    BY <1>5, <1>6, <2>1
<1> QED
  BY <1>1, <1>7

\* One more line, unless the instruction of the last one ends where it begins.
OneMore(before, next, start) ==
  LET at == IF before = <<>> THEN start ELSE next[before[Len(before)]]
  IN IF before # <<>> /\ at = before[Len(before)] THEN before ELSE Append(before, at)

Disassembled(lines, next, start, count) ==
  lines = [n \in 0..count |-> IF n = 0 THEN <<>> ELSE OneMore(lines[n - 1], next, start)]

\* Lines without a gap; fewer than n of them only at the end.
Gapless(lines, next, start, n) ==
  /\ n > 0 => Len(lines) > 0 /\ lines[1] = start
  /\ \A i \in 2..Len(lines) : lines[i] = next[lines[i - 1]] /\ lines[i] # lines[i - 1]
  /\ 0 < Len(lines) /\ Len(lines) < n => next[lines[Len(lines)]] = lines[Len(lines)]

(* Another line leaves no gap.                                             *)
LEMMA OneMoreLine ==
  ASSUME NEW Address, NEW next \in [Address -> Address], NEW start \in Address,
         NEW n \in Nat, NEW lines \in Seq(Address),
         n = 0 => lines = <<>>, Len(lines) <= n, Gapless(lines, next, start, n)
  PROVE  LET more == OneMore(lines, next, start)
         IN more \in Seq(Address) /\ Len(more) <= n + 1 /\ Gapless(more, next, start, n + 1)
<1> DEFINE more == OneMore(lines, next, start)
           last == lines[Len(lines)]
           at == IF lines = <<>> THEN start ELSE next[last]
<1>1. Len(lines) \in Nat /\ (lines # <<>> => Len(lines) \in 1..Len(lines) /\ last \in Address)
  OBVIOUS
<1>2. at \in Address
  BY <1>1
<1>3. CASE lines # <<>> /\ next[last] = last
  <2>1. more = lines
    BY <1>3 DEF OneMore
  <2>2. Len(lines) > 0 /\ n > 0 /\ Len(lines) <= n + 1
    BY <1>1, <1>3
  <2>3. lines[1] = start
    BY <2>2 DEF Gapless
  <2>4. \A i \in 2..Len(lines) : lines[i] = next[lines[i - 1]] /\ lines[i] # lines[i - 1]
    BY DEF Gapless
  <2>5. Gapless(lines, next, start, n + 1)
    BY <1>3, <2>2, <2>3, <2>4 DEF Gapless
  <2> HIDE DEF more
  <2> QED
    BY <2>1, <2>2, <2>5 DEF more
<1>4. CASE ~(lines # <<>> /\ next[last] = last)
  <2>1. more = Append(lines, at)
    BY <1>4 DEF OneMore
  <2> HIDE DEF more, at
  <2>2. /\ more \in Seq(Address) /\ Len(more) = Len(lines) + 1
        /\ \A i \in 1..Len(lines) : more[i] = lines[i]
        /\ more[Len(lines) + 1] = at
    BY <1>1, <1>2, <2>1
  <2>3. Len(lines) = n
    <3>1. n # 0 => Len(lines) > 0
      BY DEF Gapless
    <3>2. Len(lines) > 0 => lines # <<>>
      OBVIOUS
    <3> QED
      BY <1>1, <1>4, <3>1, <3>2 DEF Gapless
  <2>4. more[1] = start
    <3>1. CASE n = 0
      BY <2>2, <2>3, <3>1 DEF at
    <3>2. CASE n # 0
      BY <2>2, <2>3, <3>2 DEF Gapless
    <3> QED
      BY <3>1, <3>2
  <2>5. ASSUME NEW i \in 2..(Len(lines) + 1)
        PROVE  more[i] = next[more[i - 1]] /\ more[i] # more[i - 1]
    <3>1. CASE i = Len(lines) + 1
      <4>1. i - 1 = Len(lines) /\ lines # <<>> /\ Len(lines) \in 1..Len(lines)
        BY <1>1, <3>1
      <4>2. more[i - 1] = last /\ more[i] = next[last]
        BY <2>2, <3>1, <4>1 DEF at
      <4> QED
        BY <1>4, <4>1, <4>2
    <3>2. CASE i # Len(lines) + 1
      <4>1. i \in 2..Len(lines) /\ i \in 1..Len(lines) /\ i - 1 \in 1..Len(lines)
        BY <1>1, <3>2
      <4> QED
        BY <2>2, <4>1 DEF Gapless
    <3> QED
      BY <3>1, <3>2
  <2>6. Len(more) = n + 1
    BY <2>2, <2>3
  <2>7. Gapless(more, next, start, n + 1)
    BY <2>2, <2>3, <2>4, <2>5, <2>6 DEF Gapless
  <2> QED
    BY <2>2, <2>6, <2>7 DEF more
<1> QED
  BY <1>3, <1>4

(* The lines exist (disassemble).                                          *)
LEMMA DisassemblyExists ==
  ASSUME NEW Address, NEW next \in [Address -> Address], NEW start \in Address, NEW count \in Nat
  PROVE  \E lines : Disassembled(lines, next, start, count)
<1> DEFINE onward == [k \in Nat |-> [before \in Seq(Address) |-> OneMore(before, next, start)]]
<1>1. ASSUME NEW before \in Seq(Address)
      PROVE  OneMore(before, next, start) \in Seq(Address)
  <2>1. before # <<>> => Len(before) \in 1..Len(before)
    OBVIOUS
  <2>2. before # <<>> => before[Len(before)] \in Address
    BY <2>1
  <2> QED
    BY <2>2 DEF OneMore
<1>2. Recursion(Seq(Address), <<>>, onward)
  BY <1>1 DEF Recursion
<1>3. PICK f : Defined(f, Seq(Address), <<>>, onward)
  <2> HIDE DEF onward
  <2> QED
    BY <1>2, RecursionDefines
<1>4. \A n \in Nat : f[n] \in Seq(Address) /\ f[n + 1] = OneMore(f[n], next, start)
  BY <1>3 DEF Defined
<1> DEFINE lines == [n \in 0..count |-> f[n]]
<1>5. ASSUME NEW n \in 0..count
      PROVE  f[n] = IF n = 0 THEN <<>> ELSE OneMore(lines[n - 1], next, start)
  <2>1. CASE n = 0
    BY <1>3, <2>1 DEF Defined
  <2>2. CASE n # 0
    <3>1. n - 1 \in Nat /\ n - 1 \in 0..count /\ (n - 1) + 1 = n
      BY <2>2
    <3>2. lines[n - 1] = f[n - 1]
      BY <3>1
    <3> HIDE DEF lines
    <3> QED
      BY <1>4, <2>2, <3>1, <3>2
  <2> QED
    BY <2>1, <2>2
<1>6. Disassembled(lines, next, start, count)
  BY <1>5 DEF Disassembled
<1> HIDE DEF lines
<1> QED
  BY <1>6

(* Disassembly has no gap: each line begins where the instruction of the   *)
(* one before it ends, and there are fewer lines than were asked for only  *)
(* if the last instruction ends where it begins (disassemble).             *)
THEOREM DisassemblyIsGapless ==
  ASSUME NEW Address, NEW next \in [Address -> Address], NEW start \in Address, NEW count \in Nat
  PROVE  LET lines == Disassembly(next, start, count)
         IN lines \in Seq(Address) /\ Len(lines) <= count /\ Gapless(lines, next, start, count)
<1> DEFINE lines == CHOOSE f : Disassembled(f, next, start, count)
           Wrong == {n \in 0..count :
                       ~(/\ n = 0 => lines[n] = <<>>
                         /\ lines[n] \in Seq(Address) /\ Len(lines[n]) <= n
                         /\ Gapless(lines[n], next, start, n))}
<1>1. Disassembly(next, start, count) = lines[count]
  BY Zenon DEF Disassembly, Disassembled, OneMore
<1>2. Disassembled(lines, next, start, count)
  BY DisassemblyExists
<1> HIDE DEF lines
<1>3. \A n \in 0..count : lines[n] = IF n = 0 THEN <<>> ELSE OneMore(lines[n - 1], next, start)
  BY <1>2, Zenon DEF Disassembled
<1>4. Wrong = {}
  <2> SUFFICES ASSUME Wrong # {}
               PROVE  FALSE
    OBVIOUS
  <2>1. Wrong \in SUBSET Nat
    OBVIOUS
  <2>2. PICK n \in Wrong : \A m \in Wrong : n <= m
    <3> HIDE DEF Wrong
    <3> QED
      BY <2>1, SetsOfNumbersHaveALeast
  <2>3. n \in 0..count
    BY <2>2
  <2>4. n # 0
    <3> SUFFICES ASSUME n = 0
                 PROVE  FALSE
      OBVIOUS
    <3>1. lines[0] = <<>>
      BY <1>3, <2>3
    <3>2. Gapless(<<>>, next, start, 0)
      BY DEF Gapless
    <3>3. <<>> \in Seq(Address) /\ Len(<<>>) <= 0
      OBVIOUS
    <3> QED
      BY <2>2, <3>1, <3>2, <3>3
  <2>5. /\ n - 1 \in 0..count /\ n - 1 \in Nat /\ (n - 1) + 1 = n
        /\ n - 1 \notin Wrong
    <3> HIDE DEF Wrong
    <3> QED
      BY <2>1, <2>2, <2>3, <2>4
  <2>6. /\ n - 1 = 0 => lines[n - 1] = <<>>
        /\ lines[n - 1] \in Seq(Address) /\ Len(lines[n - 1]) <= n - 1
        /\ Gapless(lines[n - 1], next, start, n - 1)
    BY <2>5
  <2>7. lines[n] = OneMore(lines[n - 1], next, start)
    BY <1>3, <2>3, <2>4
  <2>8. lines[n] \in Seq(Address) /\ Len(lines[n]) <= n /\ Gapless(lines[n], next, start, n)
    <3> HIDE DEF Wrong
    <3>1. /\ OneMore(lines[n - 1], next, start) \in Seq(Address)
          /\ Len(OneMore(lines[n - 1], next, start)) <= (n - 1) + 1
          /\ Gapless(OneMore(lines[n - 1], next, start), next, start, (n - 1) + 1)
      BY <2>5, <2>6, OneMoreLine
    <3> QED
      BY <2>5, <2>7, <3>1
  <2> QED
    BY <2>2, <2>4, <2>8
<1>5. count \in 0..count
  OBVIOUS
<1> QED
  BY <1>1, <1>4, <1>5

(* A function on 1..n is a list of n.                                      *)
LEMMA BooleanLists ==
  ASSUME NEW n \in Nat, NEW list \in [1..n -> BOOLEAN]
  PROVE  list \in Seq(BOOLEAN) /\ Len(list) = n
OBVIOUS

(* Every answer that claims to be complete is, on the inputs of the runs   *)
(* (virtual_memory_map, stack_trace_from_offsets, disassemble,             *)
(* thread_accounting_snapshot, last_event, symbol_entry_range_by_offset).  *)
THEOREM CapturedIsWhole == CapturedIsComplete
<1>1. ASSUME NEW q \in RegionQueries, NEW limit \in 1..3,
             MemoryMap(q, Space, limit).status = "address_space_exhausted"
      PROVE  /\ \A a \in 0..(Space - 1) : q[a] = NoRegion \/ MemoryMap(q, Space, limit).regions > 0
             /\ MemoryMap(q, Space, limit).regions
                  = Cardinality({q[a] : a \in 0..(Space - 1)} \ {NoRegion})
  <2>1. RegionsOf(q, Space)
    <3>1. Space \in Nat \ {0}
      BY DEF Space
    <3>2. Regions \subseteq [base : Nat, size : Nat \ {0}]
      BY <3>1 DEF Regions
    <3>3. q \in Answers(Space)
      BY <3>2 DEF RegionQueries, Answers
    <3>4. ASSUME NEW a \in 0..(Space - 1), q[a] # NoRegion
          PROVE  q[a].base + q[a].size <= Space
      <4>1. q[a] \in Regions
        BY <3>4 DEF RegionQueries
      <4> QED
        BY <4>1 DEF Regions
    <3> QED
      BY <3>3, <3>4 DEF RegionsOf, RegionQueries
  <2>2. Space \in Nat \ {0} /\ limit \in Nat
    BY DEF Space
  <2>3. /\ MemoryMap(q, Space, limit).regions = Cardinality(Above(q, Space, 0))
        /\ MemoryMap(q, Space, limit).regions > 0
    BY <1>1, <2>1, <2>2, CapturedMapIsWhole
  <2> QED
    BY <2>3 DEF Above
<1>2. ASSUME NEW stack \in UNION {[1..n -> BOOLEAN] : n \in 0..4}, NEW maxFrames \in 1..3,
             StackTrace(Shortest(stack, maxFrames), maxFrames).status = "captured"
      PROVE  StackTrace(Shortest(stack, maxFrames), maxFrames).valid = Len(stack)
  <2>1. stack \in Seq(BOOLEAN)
    <3>1. PICK n \in 0..4 : stack \in [1..n -> BOOLEAN]
      OBVIOUS
    <3> QED
      BY <3>1, BooleanLists
  <2>2. maxFrames \in Nat \ {0}
    OBVIOUS
  <2> QED
    BY <1>2, <2>1, <2>2, CapturedStackIsWhole
<1>3. ASSUME NEW threads \in UNION {[1..n -> BOOLEAN] : n \in 0..4}, NEW maxThreads \in 1..3,
             NEW advanced \in BOOLEAN,
             ThreadAccounting(threads, maxThreads, advanced).status = "captured"
      PROVE  /\ ThreadAccounting(threads, maxThreads, advanced).returned = Len(threads)
             /\ \A i \in DOMAIN threads : threads[i]
  <2>1. threads \in Seq(BOOLEAN) /\ DOMAIN threads = 1..Len(threads)
    <3>1. PICK n \in 0..4 : threads \in [1..n -> BOOLEAN]
      OBVIOUS
    <3> QED
      BY <3>1, BooleanLists
  <2>2. maxThreads \in Nat
    OBVIOUS
  <2> QED
    BY <1>3, <2>1, <2>2, CapturedAccountingIsWhole
<1>4. ASSUME NEW next \in [0..2 -> 0..2], NEW count \in 1..4
      PROVE  LET lines == Disassembly(next, 0, count)
             IN /\ \A i \in 2..Len(lines) : lines[i] = next[lines[i - 1]] /\ lines[i] # lines[i - 1]
                /\ Len(lines) < count => next[lines[Len(lines)]] = lines[Len(lines)]
  <2> DEFINE lines == Disassembly(next, 0, count)
  <2>1. Gapless(lines, next, 0, count)
    <3>1. 0 \in 0..2 /\ count \in Nat
      OBVIOUS
    <3> QED
      BY <3>1, DisassemblyIsGapless
  <2> QED
    BY <2>1 DEF Gapless
<1>5. ASSUME NEW type \in DOMAIN EventDetail, NEW used \in 0..3, NEW needed \in 0..3,
             LastEvent(type, used, 2, needed) \notin {"none", QueryError}
      PROVE  needed <= used /\ used <= 2
  BY <1>5 DEF LastEvent
<1>6. ASSUME NEW entries \in 0..1, NEW available \in 0..3,
             EntryRegions(entries, available, 2).status = "captured",
             ~EntryRegions(entries, available, 2).truncated
      PROVE  EntryRegions(entries, available, 2).regions = available
  BY <1>6 DEF EntryRegions
<1> QED
  BY <1>1, <1>2, <1>3, <1>4, <1>5, <1>6 DEF CapturedIsComplete

\* From each place on to the next one, until one that ends.
Walking(w, last, goes, ended) ==
  w = [j \in 1..last |-> IF j \in goes THEN w[j + 1] ELSE ended[j]]

(* There is such a walk, and from the first place it ends at the first one *)
(* that does not go on.                                                    *)
LEMMA WalksEnd ==
  ASSUME NEW last \in Nat \ {0}, NEW goes \in SUBSET (1..(last - 1)), NEW ended
  PROVE  /\ \E w : Walking(w, last, goes, ended)
         /\ \A w : Walking(w, last, goes, ended) =>
              \E s \in 1..last : /\ s \notin goes /\ w[1] = ended[s]
                                 /\ \A j \in 1..(s - 1) : j \in goes
<1> DEFINE Halts(j) == {k \in j..last : k \notin goes}
           First(j) == CHOOSE k \in Halts(j) : \A l \in Halts(j) : k <= l
           w0 == [j \in 1..last |-> ended[First(j)]]
<1>1. ASSUME NEW j \in 1..last
      PROVE  First(j) \in Halts(j) /\ \A l \in Halts(j) : First(j) <= l
  <2>1. last \in Halts(j) /\ Halts(j) \in SUBSET Nat
    OBVIOUS
  <2> HIDE DEF Halts
  <2> QED
    BY <2>1, SetsOfNumbersHaveALeast
<1>2. ASSUME NEW j \in goes
      PROVE  j \in 1..last /\ j + 1 \in 1..last /\ First(j) = First(j + 1)
  <2>1. j \in 1..last /\ j + 1 \in 1..last
    OBVIOUS
  <2>2. Halts(j) = Halts(j + 1)
    <3>1. \A k \in j..last : k \notin goes => k \in (j + 1)..last
      OBVIOUS
    <3>2. \A k \in (j + 1)..last : k \in j..last
      BY <2>1
    <3> QED
      BY <3>1, <3>2
  <2> HIDE DEF Halts
  <2> QED
    BY <2>1, <2>2
<1>3. ASSUME NEW j \in 1..last, j \notin goes
      PROVE  First(j) = j
  <2>1. j \in Halts(j) /\ First(j) \in Nat /\ First(j) >= j
    BY <1>1, <1>3
  <2>2. First(j) <= j
    BY <1>1, <2>1
  <2> HIDE DEF First
  <2> QED
    BY <2>1, <2>2
<1> HIDE DEF First
<1>4. Walking(w0, last, goes, ended)
  <2>1. \A j \in 1..last : w0[j] = IF j \in goes THEN w0[j + 1] ELSE ended[j]
    BY <1>2, <1>3
  <2> QED
    BY <2>1 DEF Walking
<1>5. ASSUME NEW w, Walking(w, last, goes, ended)
      PROVE  \E s \in 1..last : /\ s \notin goes /\ w[1] = ended[s]
                                /\ \A j \in 1..(s - 1) : j \in goes
  <2> DEFINE s == First(1)
             Strays == {j \in 1..s : w[1] # w[j]}
  <2>1. s \in 1..last /\ s \notin goes /\ \A j \in 1..(s - 1) : j \in goes
    <3>1. 1 \in 1..last
      OBVIOUS
    <3>2. s \in Halts(1) /\ \A l \in Halts(1) : s <= l
      BY <1>1, <3>1
    <3> QED
      BY <3>2
  <2> HIDE DEF s
  <2>2. \A j \in 1..last : w[j] = IF j \in goes THEN w[j + 1] ELSE ended[j]
    BY <1>5 DEF Walking
  <2>3. Strays = {}
    <3> SUFFICES ASSUME Strays # {}
                 PROVE  FALSE
      OBVIOUS
    <3>1. Strays \in SUBSET Nat
      BY <2>1
    <3>2. PICK j \in Strays : \A k \in Strays : j <= k
      <4> HIDE DEF Strays
      <4> QED
        BY <3>1, SetsOfNumbersHaveALeast
    <3>3. j # 1 /\ j \in 1..s
      BY <3>2
    <3>4. j - 1 \in 1..s /\ j - 1 \notin Strays /\ j - 1 \in 1..(s - 1) /\ (j - 1) + 1 = j
      <4>1. j - 1 < j /\ j - 1 \in 1..(s - 1) /\ j - 1 \in 1..s /\ (j - 1) + 1 = j
        BY <2>1, <3>3
      <4>2. j \in Nat /\ j - 1 \in Nat
        BY <2>1, <3>3
      <4> HIDE DEF Strays
      <4> QED
        BY <3>2, <4>1, <4>2
    <3>5. w[j - 1] = w[j]
      BY <2>1, <2>2, <3>4
    <3>6. w[1] = w[j - 1]
      BY <3>4
    <3> QED
      BY <3>2, <3>5, <3>6
  <2>4. s \in 1..s
    BY <2>1
  <2>5. w[1] = ended[s]
    BY <2>1, <2>2, <2>3, <2>4
  <2> QED
    BY <2>1, <2>5
<1> HIDE DEF w0
<1> QED
  BY <1>4, <1>5

\* What the digits of an address below a leaf say, put together one by one ...
Together(leaf, last, indexes) ==
  LET p[j \in leaf..last] == IF j = leaf THEN 0 ELSE 2 * p[j - 1] + indexes[j] IN p[last]

\* ... and weighed each.
Weighed(leaf, last, indexes, weight) ==
  LET p[j \in leaf..last] == IF j = leaf THEN 0 ELSE p[j - 1] + indexes[j] * weight[j] IN p[last]

\* What both come to in a page that is at most two levels above the last.
Digits(leaf, last, indexes) ==
  IF leaf = last THEN 0 ELSE IF leaf + 1 = last THEN indexes[last]
  ELSE 2 * indexes[last - 1] + indexes[last]

(* Both come to the same.                                                  *)
LEMMA DigitsOfAPage ==
  ASSUME NEW last \in Nat \ {0}, NEW leaf \in 1..last, last - 2 <= leaf,
         NEW indexes \in [1..last -> Nat], NEW weight, \A j \in leaf..last : weight[j] \in Nat,
         weight[last] = 1, leaf < last => weight[last - 1] = 2
  PROVE  /\ Together(leaf, last, indexes) = Digits(leaf, last, indexes)
         /\ Weighed(leaf, last, indexes, weight) = Digits(leaf, last, indexes)
         /\ Digits(leaf, last, indexes) \in Nat
<1>1. leaf = last \/ leaf + 1 = last \/ leaf + 2 = last
  OBVIOUS
<1>2. \A j \in leaf..last : indexes[j] \in Nat /\ weight[j] \in Nat
  OBVIOUS
<1>3. Together(leaf, last, indexes) = Digits(leaf, last, indexes)
  <2> DEFINE Pages(p) == p = [j \in leaf..last |->
                                IF j = leaf THEN 0 ELSE 2 * p[j - 1] + indexes[j]]
             p0 == [j \in leaf..last |-> IF j = leaf THEN 0 ELSE IF j = leaf + 1 THEN indexes[j]
                                         ELSE 2 * indexes[j - 1] + indexes[j]]
             pages == CHOOSE p : Pages(p)
  <2>1. Pages(p0)
    <3>1. \A j \in leaf..last :
             p0[j] = IF j = leaf THEN 0 ELSE 2 * p0[j - 1] + indexes[j]
      BY <1>1, <1>2
    <3> QED
      BY <3>1
  <2> HIDE DEF p0
  <2>2. \A j \in leaf..last : pages[j] = IF j = leaf THEN 0 ELSE 2 * pages[j - 1] + indexes[j]
    <3>1. Pages(pages)
      BY <2>1
    <3> HIDE DEF pages
    <3> QED
      BY <3>1
  <2> HIDE DEF pages
  <2>3. pages[last] = Digits(leaf, last, indexes)
    <3>1. CASE leaf = last
      BY <2>2, <3>1 DEF Digits
    <3>2. CASE leaf + 1 = last
      <4>1. pages[leaf] = 0 /\ pages[last] = 2 * pages[last - 1] + indexes[last] /\ last - 1 = leaf
        BY <2>2, <3>2
      <4> QED
        BY <1>2, <3>2, <4>1 DEF Digits
    <3>3. CASE leaf + 2 = last
      <4>1. /\ pages[leaf] = 0 /\ (last - 1) - 1 = leaf
            /\ pages[last - 1] = 2 * pages[(last - 1) - 1] + indexes[last - 1]
            /\ pages[last] = 2 * pages[last - 1] + indexes[last]
        BY <2>2, <3>3
      <4>2. last - 1 \in leaf..last
        BY <3>3
      <4> QED
        BY <1>2, <3>3, <4>1, <4>2 DEF Digits
    <3> QED
      BY <1>1, <3>1, <3>2, <3>3
  <2> QED
    BY <2>3, Zenon DEF pages, Together
<1>4. Weighed(leaf, last, indexes, weight) = Digits(leaf, last, indexes)
  <2> DEFINE weighed == [j \in 1..last |-> indexes[j] * weight[j]]
             Low(p) == p = [j \in leaf..last |-> IF j = leaf THEN 0 ELSE p[j - 1] + indexes[j] * weight[j]]
             p0 == [j \in leaf..last |-> IF j = leaf THEN 0 ELSE IF j = leaf + 1 THEN weighed[j]
                                         ELSE weighed[j - 1] + weighed[j]]
             low == CHOOSE p : Low(p)
  <2>1. /\ \A j \in leaf..last : weighed[j] \in Nat /\ weighed[j] = indexes[j] * weight[j]
        /\ weighed[last] = indexes[last] /\ (leaf < last => weighed[last - 1] = 2 * indexes[last - 1])
    <3>1. \A j \in leaf..last : weighed[j] = indexes[j] * weight[j]
      OBVIOUS
    <3>2. \A n, m \in Nat : n * m \in Nat
      OBVIOUS
    <3>3. last \in leaf..last /\ (leaf < last => last - 1 \in leaf..last)
      OBVIOUS
    <3> HIDE DEF weighed
    <3> QED
      BY <1>2, <3>1, <3>2, <3>3
  <2>2. Low(p0)
    <3>1. \A j \in leaf..last :
             p0[j] = IF j = leaf THEN 0 ELSE p0[j - 1] + weighed[j]
      <4> HIDE DEF weighed
      <4> QED
        BY <1>1, <2>1
    <3> HIDE DEF weighed, p0
    <3>2. \A j \in leaf..last :
             p0[j] = IF j = leaf THEN 0 ELSE p0[j - 1] + indexes[j] * weight[j]
      BY <2>1, <3>1
    <3> QED
      BY <3>2 DEF p0
  <2> HIDE DEF p0
  <2>3. \A j \in leaf..last : low[j] = IF j = leaf THEN 0 ELSE low[j - 1] + weighed[j]
    <3>1. Low(low)
      BY <2>2
    <3> HIDE DEF low
    <3>2. \A j \in leaf..last : low[j] = IF j = leaf THEN 0 ELSE low[j - 1] + indexes[j] * weight[j]
      BY <3>1
    <3> HIDE DEF weighed
    <3> QED
      BY <2>1, <3>2
  <2> HIDE DEF low, weighed
  <2>4. low[last] = Digits(leaf, last, indexes)
    <3>1. CASE leaf = last
      BY <2>3, <3>1 DEF Digits
    <3>2. CASE leaf + 1 = last
      <4>1. low[leaf] = 0 /\ low[last] = low[last - 1] + weighed[last] /\ last - 1 = leaf
        BY <2>3, <3>2
      <4> QED
        BY <1>2, <2>1, <3>2, <4>1 DEF Digits
    <3>3. CASE leaf + 2 = last
      <4>1. /\ low[leaf] = 0 /\ (last - 1) - 1 = leaf
            /\ low[last - 1] = low[(last - 1) - 1] + weighed[last - 1]
            /\ low[last] = low[last - 1] + weighed[last]
        BY <2>3, <3>3
      <4>2. last - 1 \in leaf..last /\ leaf < last
        BY <3>3
      <4> QED
        BY <1>2, <2>1, <3>3, <4>1, <4>2 DEF Digits
    <3> QED
      BY <1>1, <3>1, <3>2, <3>3
  <2> QED
    BY <2>4, Zenon DEF low, Weighed
<1>5. Digits(leaf, last, indexes) \in Nat
  <2>1. leaf + 2 = last => last - 1 \in leaf..last /\ leaf # last /\ leaf + 1 # last
    OBVIOUS
  <2> QED
    BY <1>1, <1>2, <2>1 DEF Digits
<1> QED
  BY <1>3, <1>4, <1>5

\* What an entry of a page table may be.
PageEntry == [read : BOOLEAN, present : BOOLEAN, bit7 : BOOLEAN, noExecute : BOOLEAN, frame : Nat]

\* What a walk that ends at level i comes to.
EndedAt(levels, entries, indexes, byte, i) ==
  LET level == levels[i]
      e == entries[i]
      within == Within(levels, i, indexes, byte)
  IN CASE ~e.read -> Walked("physical_read_unavailable", i - 1)
       [] e.read /\ ~e.present -> Walked("nonpresent", i)
       [] e.read /\ e.present /\ AtLeaf(level, e, i = Len(levels)) ->
            [status |-> "captured", read |-> i,
             mapped |-> IF LargePage(level, e)
                        THEN LargePageAddress(e, Span(levels, i), within)
                        ELSE SmallPageAddress(e, within)]
       [] OTHER -> Walked("invalid_next_table", i)

\* The levels at which it goes on.
GoesOn(levels, entries) ==
  {i \in 1..Len(levels) :
     /\ entries[i].read /\ entries[i].present /\ entries[i].frame # 0
     /\ ~LargePage(levels[i], entries[i]) /\ i # Len(levels)}

(* A walk ends at the first level at which it does not go on.              *)
LEMMA WalkEnds ==
  ASSUME NEW levels, NEW entries, NEW indexes, NEW byte, Len(levels) \in Nat \ {0}
  PROVE  \E s \in 1..Len(levels) :
           /\ s \notin GoesOn(levels, entries)
           /\ \A j \in 1..(s - 1) : j \in GoesOn(levels, entries)
           /\ WalkFrom(levels, entries, indexes, byte) = EndedAt(levels, entries, indexes, byte, s)
<1> DEFINE last == Len(levels)
           goes == GoesOn(levels, entries)
           ended == [i \in 1..last |-> EndedAt(levels, entries, indexes, byte, i)]
           Body(w, i) ==
             LET level == levels[i]
                 e == entries[i]
                 within == Within(levels, i, indexes, byte)
             IN CASE ~e.read -> Walked("physical_read_unavailable", i - 1)
                  [] e.read /\ ~e.present -> Walked("nonpresent", i)
                  [] e.read /\ e.present /\ AtLeaf(level, e, i = Len(levels)) ->
                       [status |-> "captured", read |-> i,
                        mapped |-> IF LargePage(level, e)
                                   THEN LargePageAddress(e, Span(levels, i), within)
                                   ELSE SmallPageAddress(e, within)]
                  [] OTHER -> IF e.frame = 0 THEN Walked("invalid_next_table", i) ELSE w[i + 1]
           Walks(w) == w = [i \in 1..Len(levels) |-> Body(w, i)]
           walk == CHOOSE w : Walks(w)
<1>1. ASSUME NEW w, NEW i \in 1..last
      PROVE  Body(w, i) = IF i \in goes THEN w[i + 1] ELSE ended[i]
  <2>1. AtLeaf(levels[i], entries[i], i = Len(levels)) <=> LargePage(levels[i], entries[i]) \/ i = Len(levels)
    BY Zenon DEF AtLeaf
  <2>2. i \in goes <=> /\ entries[i].read /\ entries[i].present /\ entries[i].frame # 0
                       /\ ~AtLeaf(levels[i], entries[i], i = Len(levels))
    BY <2>1 DEF GoesOn
  <2>3. ended[i] = EndedAt(levels, entries, indexes, byte, i)
    OBVIOUS
  <2> HIDE DEF goes, ended
  <2> QED
    BY <2>2, <2>3, Zenon DEF EndedAt
<1>2. \A w : Walks(w) <=> Walking(w, last, goes, ended)
  <2> SUFFICES ASSUME NEW w
               PROVE  [i \in 1..last |-> Body(w, i)]
                        = [i \in 1..last |-> IF i \in goes THEN w[i + 1] ELSE ended[i]]
    BY DEF Walking
  <2> HIDE DEF Body, goes, ended
  <2> QED
    BY <1>1
<1>3. last \in Nat \ {0} /\ goes \in SUBSET (1..(last - 1))
  BY DEF GoesOn
<1>4. WalkFrom(levels, entries, indexes, byte) = walk[1]
  BY Zenon DEF WalkFrom
<1> HIDE DEF Walks
<1>5. \E w : Walking(w, last, goes, ended)
  <2> HIDE DEF last, goes, ended
  <2> QED
    BY <1>3, WalksEnd
<1>6. Walking(walk, last, goes, ended)
  BY <1>2, <1>5
<1> HIDE DEF walk
<1>7. \E s \in 1..last : /\ s \notin goes /\ walk[1] = ended[s]
                         /\ \A j \in 1..(s - 1) : j \in goes
  <2> HIDE DEF last, goes, ended
  <2> QED
    BY <1>3, <1>6, WalksEnd
<1> QED
  BY <1>4, <1>7

(* The levels of a walk: only the two before the last have large pages.    *)
LEMMA LevelsOf ==
  ASSUME NEW la57 \in BOOLEAN
  PROVE  LET levels == Levels(la57)
             last == Len(levels)
         IN /\ last \in {4, 5}
            /\ \A i \in 1..last : levels[i] \in {"PDPTE", "PDE"} => last - 2 <= i /\ i < last
            /\ Span(levels, last) = 1 /\ Span(levels, last - 1) = 2 /\ Span(levels, last - 2) = 4
<1>1. CASE la57
  <2> DEFINE levels == <<"PML5E", "PML4E", "PDPTE", "PDE", "PTE">>
  <2>1. Levels(la57) = levels
    BY <1>1 DEF Levels
  <2>2. /\ Len(levels) = 5
        /\ levels[1] = "PML5E" /\ levels[2] = "PML4E" /\ levels[3] = "PDPTE"
        /\ levels[4] = "PDE" /\ levels[5] = "PTE"
    OBVIOUS
  <2> HIDE DEF levels
  <2>3. \A i \in 1..5 : i = 1 \/ i = 2 \/ i = 3 \/ i = 4 \/ i = 5
    OBVIOUS
  <2>4. \A i \in 1..5 : levels[i] \in {"PDPTE", "PDE"} => i = 3 \/ i = 4
    BY <2>2, <2>3
  <2>5. Span(levels, 5) = 1 /\ Span(levels, 4) = 2 /\ Span(levels, 3) = 4
    BY <2>2 DEF Span
  <2> QED
    BY <2>1, <2>2, <2>4, <2>5
<1>2. CASE ~la57
  <2> DEFINE levels == <<"PML4E", "PDPTE", "PDE", "PTE">>
  <2>1. Levels(la57) = levels
    BY <1>2 DEF Levels
  <2>2. /\ Len(levels) = 4
        /\ levels[1] = "PML4E" /\ levels[2] = "PDPTE" /\ levels[3] = "PDE" /\ levels[4] = "PTE"
    OBVIOUS
  <2> HIDE DEF levels
  <2>3. \A i \in 1..4 : i = 1 \/ i = 2 \/ i = 3 \/ i = 4
    OBVIOUS
  <2>4. \A i \in 1..4 : levels[i] \in {"PDPTE", "PDE"} => i = 2 \/ i = 3
    BY <2>2, <2>3
  <2>5. Span(levels, 4) = 1 /\ Span(levels, 3) = 2 /\ Span(levels, 2) = 4
    BY <2>2 DEF Span
  <2> QED
    BY <2>1, <2>2, <2>4, <2>5
<1> QED
  BY <1>1, <1>2

(* A walk of the page tables, of four levels or of five, that captures a   *)
(* mapping has read present entries only and ends where the processor      *)
(* would, in a page of any size, unless the page is large and no-execute;  *)
(* any other walk maps nothing and stopped for a reason                    *)
(* (walk_x64_page_tables).                                                 *)
THEOREM WalksAreExact ==
  ASSUME NEW la57 \in BOOLEAN, NEW entries \in [1..Len(Levels(la57)) -> PageEntry],
         NEW indexes \in [1..Len(Levels(la57)) -> Nat], NEW byte \in Nat
  PROVE  LET levels == Levels(la57)
             w == WalkFrom(levels, entries, indexes, byte)
         IN IF w.status = "captured"
            THEN /\ w.read \in 1..Len(levels)
                 /\ \A j \in 1..w.read : entries[j].read /\ entries[j].present
                 /\ (LargePage(levels[w.read], entries[w.read]) => ~entries[w.read].noExecute) =>
                      w.mapped = Translation(levels, entries, indexes, byte)
            ELSE /\ w.mapped = "none"
                 /\ \E j \in 1..Len(levels) :
                      /\ ~entries[j].read \/ ~entries[j].present \/ entries[j].frame = 0
                      /\ \A k \in 1..(j - 1) : ~LargePage(levels[k], entries[k])
<1> DEFINE levels == Levels(la57)
           last == Len(levels)
           w == WalkFrom(levels, entries, indexes, byte)
           weight == [j \in 1..last |-> Span(levels, j)]
<1>1. /\ last \in {4, 5} /\ last \in Nat \ {0}
      /\ \A i \in 1..last : levels[i] \in {"PDPTE", "PDE"} => last - 2 <= i /\ i < last
      /\ Span(levels, last) = 1 /\ Span(levels, last - 1) = 2 /\ Span(levels, last - 2) = 4
  BY LevelsOf
<1> HIDE DEF levels
<1>2. PICK s \in 1..last : /\ s \notin GoesOn(levels, entries)
                           /\ \A j \in 1..(s - 1) : j \in GoesOn(levels, entries)
                           /\ w = EndedAt(levels, entries, indexes, byte, s)
  <2> HIDE DEF w
  <2> QED
    BY <1>1, WalkEnds DEF w
<1> DEFINE e == entries[s]
           large == LargePage(levels[s], e)
           leaf == large \/ s = last
<1>3. \A j \in 1..last : entries[j] \in PageEntry
  BY DEF levels
<1>4. \A j \in 1..(s - 1) : /\ entries[j].read /\ entries[j].present
                            /\ ~LargePage(levels[j], entries[j])
  BY <1>2 DEF GoesOn
<1>5. ~(e.read /\ e.present /\ e.frame # 0 /\ ~leaf)
  BY <1>2 DEF GoesOn
<1>6. AtLeaf(levels[s], e, s = Len(levels)) <=> leaf
  BY Zenon DEF AtLeaf
<1> DEFINE captured == [status |-> "captured", read |-> s,
                        mapped |-> IF large
                                   THEN LargePageAddress(e, Span(levels, s), Within(levels, s, indexes, byte))
                                   ELSE SmallPageAddress(e, Within(levels, s, indexes, byte))]
<1>7. w = CASE ~e.read -> Walked("physical_read_unavailable", s - 1)
            [] e.read /\ ~e.present -> Walked("nonpresent", s)
            [] e.read /\ e.present /\ leaf -> captured
            [] OTHER -> Walked("invalid_next_table", s)
  <2> HIDE DEF w
  <2> QED
    BY <1>2, <1>6, Zenon DEF EndedAt
<1> HIDE DEF w, captured, large, leaf
<1>8. CASE e.read /\ e.present /\ leaf
  <2>1. w = captured
    BY <1>7, <1>8
  <2>2. w.status = "captured" /\ w.read = s
    BY <2>1 DEF captured
  <2>3. \A j \in 1..s : entries[j].read /\ entries[j].present
    <3>1. \A j \in 1..s : j = s \/ j \in 1..(s - 1)
      OBVIOUS
    <3> QED
      BY <1>4, <1>8, <3>1
  <2>4. ASSUME large => ~e.noExecute
        PROVE  w.mapped = Translation(levels, entries, indexes, byte)
    <3> DEFINE Leaf(i) == /\ LargePage(levels[i], entries[i]) \/ i = Len(levels)
                          /\ \A j \in 1..(i - 1) : ~LargePage(levels[j], entries[j])
               digits == Digits(s, last, indexes)
    \* The processor's leaf is the one at which the walk ended.
    <3>1. s = CHOOSE i \in 1..Len(levels) : Leaf(i)
      <4>1. Leaf(s)
        BY <1>4, <1>8 DEF leaf, large
      <4>2. ASSUME NEW i \in 1..last, Leaf(i)
            PROVE  i = s
        <5>1. CASE i < s
          BY <1>1, <1>4, <4>2, <5>1
        <5>2. CASE s < i
          BY <1>1, <1>8, <4>2, <5>2 DEF leaf, large
        <5> QED
          BY <1>1, <5>1, <5>2
      <4> HIDE DEF Leaf
      <4> QED
        BY <4>1, <4>2
    <3>2. last - 2 <= s /\ (large => s < last)
      BY <1>1, <1>8 DEF leaf, large, LargePage
    <3>3. /\ \A j \in s..last : Span(levels, j) \in Nat /\ weight[j] = Span(levels, j)
          /\ weight[last] = 1 /\ s < last => weight[last - 1] = 2
      <4>1. \A j \in s..last : j = last \/ j = last - 1 \/ j = last - 2
        BY <1>1, <3>2
      <4>2. last \in 1..last /\ last - 1 \in 1..last /\ \A j \in s..last : j \in 1..last
        BY <1>1
      <4> QED
        BY <1>1, <4>1, <4>2
    <3>4. /\ Together(s, last, indexes) = digits /\ Weighed(s, last, indexes, weight) = digits
          /\ digits \in Nat
      <4>1. indexes \in [1..last -> Nat]
        BY DEF levels
      <4>2. \A j \in s..last : weight[j] \in Nat
        BY <3>3
      <4>3. /\ last \in Nat \ {0} /\ s \in 1..last /\ last - 2 <= s
            /\ weight[last] = 1 /\ (s < last => weight[last - 1] = 2)
        BY <1>1, <3>2, <3>3
      <4> HIDE DEF last, weight, Leaf
      <4> QED
        BY <4>1, <4>2, <4>3, DigitsOfAPage, Zenon
    <3>6. Within(levels, s, indexes, byte) = digits * PageBytes + byte
      <4> HIDE DEF digits
      <4> QED
        BY <3>4 DEF Within, Together
    <3>5. Translation(levels, entries, indexes, byte)
            = ((e.frame \div Span(levels, s)) * Span(levels, s) + digits) * PageBytes + byte
      <4>1. (CHOOSE p : p = [j \in s..last |->
                               IF j = s THEN 0 ELSE p[j - 1] + indexes[j] * weight[j]])[last] = digits
        <5> HIDE DEF weight, digits
        <5> QED
          BY <3>4 DEF Weighed
      <4>2. (CHOOSE p : p = [j \in s..last |->
                               IF j = s THEN 0 ELSE p[j - 1] + indexes[j] * Span(levels, j)])[last] = digits
        <5>1. \A p : [j \in s..last |-> IF j = s THEN 0 ELSE p[j - 1] + indexes[j] * weight[j]]
                       = [j \in s..last |-> IF j = s THEN 0 ELSE p[j - 1] + indexes[j] * Span(levels, j)]
          <6> HIDE DEF weight
          <6> QED
            BY <3>3
        <5> HIDE DEF weight, digits
        <5> QED
          BY <4>1, <5>1
      <4> HIDE DEF digits, Leaf
      <4> QED
        BY <3>1, <4>2 DEF Translation, Leaf
    <3>7. e.frame \in Nat
      BY <1>3 DEF PageEntry
    <3> HIDE DEF digits
    <3>8. CASE large
      <4>1. Span(levels, s) \in {2, 4}
        BY <1>1, <3>2, <3>8
      <4> DEFINE base == (e.frame \div Span(levels, s)) * Span(levels, s)
      <4>2. base \in Nat
        BY <3>7, <4>1
      <4>3. w.mapped = base * PageBytes + (digits * PageBytes + byte)
        <5>1. w.mapped = LargePageAddress(e, Span(levels, s), Within(levels, s, indexes, byte))
          BY <2>1, <3>8 DEF captured
        <5>2. ~e.noExecute
          BY <2>4, <3>8
        <5> QED
          BY <3>6, <3>4, <4>2, <5>1, <5>2 DEF LargePageAddress, PageBytes
      <4> HIDE DEF base
      <4> QED
        BY <3>4, <3>5, <4>2, <4>3 DEF base, PageBytes
    <3>9. CASE ~large
      <4>1. s = last
        BY <1>8, <3>9 DEF leaf
      <4>2. w.mapped = SmallPageAddress(e, Within(levels, s, indexes, byte))
        BY <2>1, <3>9 DEF captured
      <4>3. Span(levels, s) = 1
        BY <1>1, <4>1
      <4> QED
        BY <3>4, <3>5, <3>6, <3>7, <4>2, <4>3 DEF SmallPageAddress, PageBytes
    <3> QED
      BY <3>8, <3>9
  <2> QED
    BY <2>2, <2>3, <2>4 DEF w, large, levels
<1>9. CASE ~(e.read /\ e.present /\ leaf)
  <2>1. w \in {Walked("physical_read_unavailable", s - 1), Walked("nonpresent", s),
               Walked("invalid_next_table", s)}
    <3> HIDE DEF e
    <3> QED
      BY <1>7, <1>9
  <2>2. w.status # "captured" /\ w.mapped = "none"
    BY <2>1 DEF Walked
  <2>3. ~e.read \/ ~e.present \/ e.frame = 0
    BY <1>5, <1>9
  <2> QED
    BY <1>4, <2>2, <2>3 DEF w, levels
<1> QED
  BY <1>8, <1>9

(* A walk is exact on the entries and addresses of the runs                *)
(* (walk_x64_page_tables).                                                 *)
THEOREM WalkIsAlwaysExact == WalkIsExact
<1> DEFINE Indexes == {<<0, 0, 1, 1>>, <<1, 1, 0, 1>>, <<1, 0, 1, 0>>}
           levels == Levels(FALSE)
<1>1. Len(levels) = 4
  BY DEF Levels
<1>2. SomeEntries \subseteq PageEntry
  <2>1. \A p, b, n \in BOOLEAN, f \in {0, 1, 3} : Entry(p, b, n, f) \in PageEntry
    BY DEF Entry, PageEntry
  <2>2. UnreadEntry \in PageEntry
    BY DEF UnreadEntry, Entry, PageEntry
  <2>3. Entry(FALSE, FALSE, FALSE, 1) \in PageEntry
    BY <2>1
  <2>4. \A bit7, nx \in BOOLEAN, frame \in {0, 3} : Entry(TRUE, bit7, nx, frame) \in PageEntry
    BY <2>1
  <2> DEFINE PresentEntry(bit7, nx, frame) == Entry(TRUE, bit7, nx, frame)
             Present == {PresentEntry(bit7, nx, frame) :
                           bit7 \in BOOLEAN, nx \in BOOLEAN, frame \in {0, 3}}
             absent == Entry(FALSE, FALSE, FALSE, 1)
  <2>5. SomeEntries \subseteq {UnreadEntry, absent} \cup Present
    BY DEF SomeEntries
  <2>6. absent \in PageEntry
    BY <2>3
  <2> HIDE DEF PresentEntry, absent
  <2>7. Present \subseteq PageEntry
    <3>1. \A bit7, nx \in BOOLEAN, frame \in {0, 3} : PresentEntry(bit7, nx, frame) \in PageEntry
      BY <2>4, Zenon DEF PresentEntry
    <3> QED
      BY <3>1
  <2> HIDE DEF Present
  <2> QED
    BY <2>2, <2>5, <2>6, <2>7
<1>3. SUFFICES ASSUME NEW e \in [1..4 -> SomeEntries], NEW i \in Indexes
               PROVE  LET w == Walk("la48", 1, IF i[1] = 0 THEN "zeros" ELSE "ones", i, 1, e)
                      IN IF w.status = "captured"
                         THEN /\ \A j \in 1..w.read : e[j].present
                              /\ ~LargeAndNoExecute(w, e) => w.mapped = Translation(levels, e, i, 1)
                         ELSE /\ w.mapped = "none"
                              /\ \E j \in 1..4 :
                                   /\ ~e[j].read \/ ~e[j].present \/ e[j].frame = 0
                                   /\ \A k \in 1..(j - 1) : ~LargePage(levels[k], e[k])
  BY Zenon DEF WalkIsExact
<1> DEFINE w == WalkFrom(levels, e, i, 1)
<1>4. Walk("la48", 1, IF i[1] = 0 THEN "zeros" ELSE "ones", i, 1, e) = w
  <2>1. Levels("la48" = "la57") = levels
    BY DEF Levels
  <2> HIDE DEF levels
  <2> QED
    BY <2>1 DEF Walk, Canonical, QueryError
<1>5. e \in [1..Len(levels) -> PageEntry] /\ i \in [1..Len(levels) -> Nat] /\ 1 \in Nat
  <2>1. i \in [1..4 -> Nat]
    OBVIOUS
  <2>2. e \in [1..4 -> PageEntry]
    BY <1>2
  <2> QED
    BY <1>1, <2>1, <2>2
<1>6. IF w.status = "captured"
      THEN /\ w.read \in 1..Len(levels)
           /\ \A j \in 1..w.read : e[j].read /\ e[j].present
           /\ (LargePage(levels[w.read], e[w.read]) => ~e[w.read].noExecute) =>
                w.mapped = Translation(levels, e, i, 1)
      ELSE /\ w.mapped = "none"
           /\ \E j \in 1..Len(levels) :
                /\ ~e[j].read \/ ~e[j].present \/ e[j].frame = 0
                /\ \A k \in 1..(j - 1) : ~LargePage(levels[k], e[k])
  BY <1>5, WalksAreExact, Zenon
<1>7. w.read \in 1..4 /\ ~(w.read < Len(e) /\ e[w.read].noExecute) =>
        (LargePage(levels[w.read], e[w.read]) => ~e[w.read].noExecute)
  <2>1. Len(e) = 4
    OBVIOUS
  <2>2. levels[4] = "PTE"
    BY DEF Levels
  <2>3. ~LargePage(levels[4], e[4])
    BY <2>2 DEF LargePage
  <2> HIDE DEF w, levels
  <2> QED
    BY <2>1, <2>3
<1> HIDE DEF w, levels
<1> QED
  BY <1>1, <1>4, <1>6, <1>7 DEF LargeAndNoExecute

(* The method of a name that is resolved is the only one that fits, of the *)
(* first module that matches, and candidates that are not said to be       *)
(* truncated are all of them (resolve_method).                             *)
THEOREM ResolvedIsUnique ==
  ASSUME NEW modules, NEW expected, NEW selector, NEW signatures, NEW Token,
         Len(modules) \in Nat,
         \A i \in 1..Len(modules) : modules[i].methods \in Seq(Token),
         Clr!Resolve(expected, selector, modules, signatures).ok
  PROVE  LET r == Clr!Resolve(expected, selector, modules, signatures)
             methods == modules[r.module].methods
         IN /\ {i \in DOMAIN methods : selector \in {"none", signatures[methods[i]]}}
                 = {i \in DOMAIN methods : methods[i] = r.token}
            /\ r.module \in 1..Len(modules)
            /\ Clr!PathsMatch(expected, modules[r.module].path)
            /\ \A i \in 1..(r.module - 1) : ~Clr!PathsMatch(expected, modules[i].path)
            /\ ~r.truncated => Clr!ToSet(r.candidates) = Clr!ToSet(methods)
<1> DEFINE r == Clr!Resolve(expected, selector, modules, signatures)
           found == Clr!FindModule(expected, modules)
           methods == modules[found].methods
           fitting == {i \in DOMAIN methods : selector = "none" \/ selector = signatures[methods[i]]}
           Matching == {i \in 1..Len(modules) : Clr!PathsMatch(expected, modules[i].path)}
<1>0. Clr!Cardinality(fitting) = Cardinality(fitting)
  <2> HIDE DEF fitting
  <2> QED
    BY DEF Clr!Cardinality, Cardinality
<1>1. /\ found # 0 /\ r.module = found /\ Cardinality(fitting) = 1
      /\ r.token = methods[CHOOSE i \in fitting : TRUE]
      /\ r.candidates = SubSeq(methods, 1, 1)
      /\ r.truncated = (Len(methods) > 1)
  BY <1>0 DEF Clr!Resolve, Clr!Unresolved, Clr!Accepts, Clr!MaxCandidates
<1>2. found \in Matching /\ \A i \in Matching : found <= i
  <2>1. /\ Matching = {} => found = 0
        /\ Matching # {} => found \in Matching /\ \A i \in Matching : found <= i
    BY FirstThatMatches
  <2> QED
    BY <1>1, <2>1
<1> HIDE DEF r, found
<1>3. methods \in Seq(Token) /\ DOMAIN methods = 1..Len(methods) /\ Len(methods) \in Nat
  BY <1>2
<1> HIDE DEF methods
<1>4. PICK only : fitting = {only}
  <2>1. fitting \subseteq 1..Len(methods)
    BY <1>3
  <2> HIDE DEF fitting
  <2>2. IsFiniteSet(fitting)
    <3>1. IsFiniteSet(1..Len(methods))
      BY <1>3, FS_Interval
    <3> QED
      BY <2>1, <3>1, FS_Subset
  <2> QED
    BY <1>1, <2>2, FS_Singleton
<1>5. r.token = methods[only] /\ only \in 1..Len(methods)
  BY <1>1, <1>3, <1>4
<1>6. fitting = {i \in DOMAIN methods : methods[i] = r.token}
  BY <1>4, <1>5
<1>7. \A i \in 1..(found - 1) : ~Clr!PathsMatch(expected, modules[i].path)
  BY <1>2
<1>8. ASSUME ~r.truncated
      PROVE  Clr!ToSet(r.candidates) = Clr!ToSet(methods)
  <2>1. Len(methods) = 1
    <3>1. ~(Len(methods) > 1)
      BY <1>1, <1>8
    <3> HIDE DEF fitting
    <3> QED
      BY <1>3, <1>5, <3>1
  <2>2. SubSeq(methods, 1, 1) = methods
    BY <1>3, <2>1
  <2> QED
    BY <1>1, <2>2
<1>9. fitting = {i \in DOMAIN methods : selector \in {"none", signatures[methods[i]]}}
  OBVIOUS
<1>10. methods = modules[r.module].methods
  BY <1>1 DEF methods
<1> HIDE DEF fitting
<1> QED
  BY <1>1, <1>2, <1>6, <1>7, <1>8, <1>9, <1>10 DEF r

(* The lists of modules of the runs are lists of modules.                  *)
LEMMA ListsOfModules ==
  ASSUME NEW modules \in Clr!Enumerations
  PROVE  /\ Len(modules) \in Nat
         /\ \A i \in 1..Len(modules) : modules[i] \in Clr!LoadedModules
         /\ \A i \in 1..Len(modules) : modules[i].methods \in Seq(Nat)
         /\ modules \in Seq(Clr!LoadedModules)
<1>1. PICK m \in 0..2 : modules \in [1..m -> Clr!LoadedModules]
  BY DEF Clr!Enumerations, Clr!BoundedSeq, Clr!SeqOf
<1>2. modules \in Seq(Clr!LoadedModules) /\ Len(modules) = m
  BY <1>1
<1>3. \A module \in Clr!LoadedModules : module.methods \in Seq(Nat)
  <2>1. {<<>>, <<1>>, <<2, 1>>, <<1, 2, 3>>, <<2, Clr!Nothing>>} \subseteq Seq(Nat)
    BY DEF Clr!Nothing
  <2>2. \A module \in Clr!LoadedModules :
           module.methods \in {<<>>, <<1>>, <<2, 1>>, <<1, 2, 3>>, <<2, Clr!Nothing>>}
    BY DEF Clr!LoadedModules
  <2> QED
    BY <2>1, <2>2
<1> QED
  BY <1>1, <1>2, <1>3

(* A managed breakpoint is set for a method only if it is the one that     *)
(* fits, in the first module of that name (resolve_method).                *)
THEOREM OneMethodIsResolved == Clr!ResolvedIsTheOnly
<1> SUFFICES ASSUME NEW selector \in Clr!Selectors, NEW modules \in Clr!Enumerations,
                    NEW signatures \in Clr!Signatures,
                    Clr!Resolve(Clr!Expected, selector, modules, signatures).ok
             PROVE  LET r == Clr!Resolve(Clr!Expected, selector, modules, signatures)
                        methods == modules[r.module].methods
                    IN /\ {i \in DOMAIN methods : selector \in {"none", signatures[methods[i]]}}
                            = {i \in DOMAIN methods : methods[i] = r.token}
                       /\ modules[r.module].path.name = Clr!Expected.name
                       /\ \A i \in 1..(r.module - 1) : modules[i].path.name # Clr!Expected.name
                       /\ ~r.truncated => Clr!ToSet(r.candidates) = Clr!ToSet(methods)
  BY Zenon DEF Clr!ResolvedIsTheOnly
<1>1. \A actual : Clr!PathsMatch(Clr!Expected, actual) <=> actual.name = Clr!Expected.name
  BY DEF Clr!PathsMatch
<1> QED
  BY <1>1, ListsOfModules, ResolvedIsUnique

(* A module that is loaded later does not take the place of the one        *)
(* resolved (refresh_method_code).                                         *)
THEOREM ResolvedIsFoundAgain == Clr!RefreshedIsResolved
<1> SUFFICES ASSUME NEW modules \in Clr!Enumerations, NEW later \in Clr!LoadedModules,
                    NEW signatures \in {[t \in Clr!Tokens |-> "a"]},
                    Clr!Resolve(Clr!Expected, "none", modules, signatures).ok
             PROVE  LET r == Clr!Resolve(Clr!Expected, "none", modules, signatures)
                        again == Clr!Refresh(Clr!Expected, r.token, modules \o <<later>>, <<"code">>)
                    IN again.module = r.module /\ again.token = r.token
  BY DEF Clr!RefreshedIsResolved
<1>1. Clr!EntryAddress(<<"code">>) \notin {"none", "error"}
  BY DEF Clr!EntryAddress
<1>2. modules \in Seq(Clr!LoadedModules) /\ <<later>> \in Seq(Clr!LoadedModules)
  BY ListsOfModules
<1> DEFINE r == Clr!Resolve(Clr!Expected, "none", modules, signatures)
<1>3. Clr!Refresh(Clr!Expected, r.token, modules \o <<later>>, <<"code">>)
        = [module |-> r.module, token |-> r.token]
  <2> DEFINE all == <<later>>
             code == <<"code">>
  <2>1. /\ all \in Seq(Clr!LoadedModules) /\ Clr!EntryAddress(code) \notin {"none", "error"}
        /\ Clr!Resolve(Clr!Expected, "none", modules, signatures).ok
    BY <1>1, <1>2
  <2> HIDE DEF all, code
  <2>2. Clr!Refresh(Clr!Expected, Clr!Resolve(Clr!Expected, "none", modules, signatures).token,
                    modules \o all, code)
          = [module |-> Clr!Resolve(Clr!Expected, "none", modules, signatures).module,
             token |-> Clr!Resolve(Clr!Expected, "none", modules, signatures).token]
    BY <1>2, <2>1, RefreshFindsTheResolved
  <2> QED
    BY <2>2 DEF all, code
<1> QED
  BY <1>3

(* One process has one engine, whose files were of one machine, however    *)
(* they are replaced between two openings (inspect_dbgeng_runtime,         *)
(* create_debug_client).                                                   *)
THEOREM OneEngine == Runtime!OneEngineForAll
BY EngineIsShared DEF Runtime!OneEngineForAll

(* What a session computes from the first answers of DbgEng and of the DAC *)
(* is exact: page walks, lists said to be complete, the method of a managed *)
(* breakpoint, and the engine they are asked of.                           *)
THEOREM QueriesStayExact == Spec => []QueriesAreExact
<1>1. QueriesAreExact
  BY WalkIsAlwaysExact, CapturedIsWhole, OneMethodIsResolved, ResolvedIsFoundAgain, OneEngine
  DEF QueriesAreExact
<1> QED
  BY <1>1, PTL

-----------------------------------------------------------------------------
(* What is read of image files and of dumps.                               *)

Images == INSTANCE PeImages
Dumps == INSTANCE DumpTriage

Sections == [address : Nat, virtual : Nat, raw : Nat, offset : Nat]

(* For any sections: an address in the part of a section that is in the    *)
(* file is read from there, where no section before it covers the address; *)
(* windbg-tool and windbg-symbols agree on the offset as long as it is one *)
(* of 32 bits (rva_to_file_offset, of both crates).                        *)
THEOREM OffsetsAlwaysInTheirSection ==
  ASSUME NEW sections \in Seq(Sections), NEW rva \in Nat, rva < Images!Top,
         NEW i \in DOMAIN sections,
         sections[i].address <= rva, rva < sections[i].address + sections[i].raw,
         \A j \in DOMAIN sections : j < i => ~Images!Covers(sections[j], rva)
  PROVE  /\ Images!UnboundedOffset(rva, sections) = sections[i].offset + (rva - sections[i].address)
         /\ Images!UnboundedOffset(rva, sections) <= Images!Top =>
              Images!FileOffset(rva, sections) = Images!UnboundedOffset(rva, sections)
<1> DEFINE covering == {k \in 1..Len(sections) : Images!Covers(sections[k], rva)}
           s == sections[i]
<1>1. s.address \in Nat /\ s.virtual \in Nat /\ s.raw \in Nat /\ s.offset \in Nat /\ Images!Top = 7
  <2>1. s \in Sections
    OBVIOUS
  <2> QED
    BY <2>1 DEF Sections, Images!Top
<1>2. Images!Covers(s, rva)
  <2> DEFINE a == s.address  v == s.virtual  r == s.raw
  <2>1. a \in Nat /\ v \in Nat /\ r \in Nat /\ a <= rva /\ rva < a + r /\ rva < Images!Top /\ Images!Top = 7
    BY <1>1
  <2>2. Images!SaturatingAdd(a, Images!MaxOf(v, r)) = IF a + Images!MaxOf(v, r) > 7 THEN 7 ELSE a + Images!MaxOf(v, r)
    BY <1>1 DEF Images!SaturatingAdd
  <2> HIDE DEF a, v, r
  <2>3. Images!MaxOf(v, r) \in Nat /\ r <= Images!MaxOf(v, r)
    BY <2>1 DEF Images!MaxOf
  <2>4. a <= rva /\ rva < Images!SaturatingAdd(a, Images!MaxOf(v, r))
    BY <2>1, <2>2, <2>3
  <2> QED
    BY <2>4 DEF Images!Covers, a, v, r
<1>3. i \in covering /\ \A k \in covering : i <= k
  <2>1. i \in covering
    BY <1>2
  <2>2. ASSUME NEW k \in covering PROVE i <= k
    <3>1. k \in Nat /\ i \in Nat /\ k \in DOMAIN sections /\ Images!Covers(sections[k], rva)
      OBVIOUS
    <3> QED
      BY <3>1
  <2> QED
    BY <2>1, <2>2
<1>4. covering \subseteq Nat
  OBVIOUS
<1>5. Images!SelectInSeq(sections, LAMBDA t : Images!Covers(t, rva)) =
        IF covering # {} THEN Images!Min(covering) ELSE 0
  BY DEF Images!SelectInSeq
<1>8. i # 0 /\ i \in Nat
  OBVIOUS
<1> HIDE DEF covering
<1>6. Images!Min(covering) = i
  BY <1>3, <1>4 DEF Images!Min
<1>7. Images!SelectInSeq(sections, LAMBDA t : Images!Covers(t, rva)) = i
  BY <1>3, <1>5, <1>6
<1>9. Images!UnboundedOffset(rva, sections) = s.offset + (rva - s.address)
  BY <1>7, <1>8 DEF Images!UnboundedOffset
<1> DEFINE to == s.offset + (rva - s.address)
<1>10. to \in Nat
  BY <1>1
<1>11. Images!FileOffset(rva, sections) = to % 8
  BY <1>1, <1>9, <1>10 DEF Images!FileOffset, Images!Error
<1> HIDE DEF to
<1>12. to <= 7 => to % 8 = to
  BY <1>10
<1> QED
  BY <1>1, <1>9, <1>11, <1>12 DEF to

(* The first entry a reader takes: of two readers that start at the same   *)
(* place, the one that takes more finds the same entry, or another one     *)
(* that stands before it and only that one takes.                          *)
LEMMA FirstOfMore ==
  ASSUME NEW Record, NEW entries \in Seq(Record), NEW taken, NEW more, taken \subseteq more,
         Images!FirstOf(entries, taken) \notin {"none", "error"}
  PROVE  \/ Images!FirstOf(entries, more) = Images!FirstOf(entries, taken)
         \/ \E k \in DOMAIN entries : /\ entries[k] \in more \ (taken \cup {"outside"})
                                      /\ Images!FirstOf(entries, more) = entries[k]
<1> DEFINE fewer == {k \in 1..Len(entries) : entries[k] \in taken \cup {"outside"}}
           others == {k \in 1..Len(entries) : entries[k] \in more \cup {"outside"}}
           a == Images!SelectInSeq(entries, LAMBDA entry : entry \in taken \cup {"outside"})
           b == Images!SelectInSeq(entries, LAMBDA entry : entry \in more \cup {"outside"})
<1>1. a = IF fewer # {} THEN Images!Min(fewer) ELSE 0
  BY DEF Images!SelectInSeq
<1>2. b = IF others # {} THEN Images!Min(others) ELSE 0
  BY DEF Images!SelectInSeq
<1>3. fewer \subseteq others /\ others \subseteq Nat \ {0}
  OBVIOUS
<1>4. /\ \A k \in others : k \in DOMAIN entries /\ entries[k] \in more \cup {"outside"}
      /\ \A k \in others \ fewer : entries[k] \notin taken \cup {"outside"}
      /\ \A k \in fewer : entries[k] \in taken \cup {"outside"}
  OBVIOUS
<1>5. /\ Images!FirstOf(entries, taken) =
           IF a = 0 THEN "none" ELSE IF entries[a] = "outside" THEN "error" ELSE entries[a]
      /\ Images!FirstOf(entries, more) =
           IF b = 0 THEN "none" ELSE IF entries[b] = "outside" THEN "error" ELSE entries[b]
  BY DEF Images!FirstOf
<1> HIDE DEF fewer, others, a, b
<1>6. a # 0 /\ fewer # {}
  BY <1>1, <1>5
<1>7. a \in fewer /\ \A k \in fewer : a <= k
  BY <1>1, <1>3, <1>6, SetsOfNumbersHaveALeast DEF Images!Min
<1>8. b \in others /\ b # 0 /\ \A k \in others : b <= k
  BY <1>2, <1>3, <1>7, SetsOfNumbersHaveALeast DEF Images!Min
<1>9. CASE b \in fewer
  <2>1. a = b
    BY <1>3, <1>7, <1>8, <1>9
  <2> QED
    BY <1>5, <2>1
<1>10. CASE b \notin fewer
  <2>1. entries[b] \in more \ (taken \cup {"outside"}) /\ b \in DOMAIN entries
    BY <1>4, <1>8, <1>10
  <2>2. Images!FirstOf(entries, more) = entries[b]
    BY <1>5, <1>8, <2>1
  <2> QED
    BY <2>1, <2>2
<1> QED
  BY <1>9, <1>10

\* The images of files whose offsets fit in 32 bits.
Readable(binary) ==
  /\ binary.entries \in Seq(Images!DebugEntries) /\ Len(binary.entries) <= Images!Top
  /\ binary.debugSize \in Nat /\ binary.debugRva \in Nat
  /\ binary.sections \in Seq(Sections)

(* An offset is one behind a section's first byte, or an error.            *)
LEMMA OffsetsAreNumbers ==
  ASSUME NEW sections \in Seq(Sections), NEW rva \in Nat, Images!UnboundedOffset(rva, sections) # Images!Error
  PROVE  Images!UnboundedOffset(rva, sections) \in Nat
<1> DEFINE covering == {k \in 1..Len(sections) : Images!Covers(sections[k], rva)}
           at == Images!SelectInSeq(sections, LAMBDA t : Images!Covers(t, rva))
<1>1. at = IF covering # {} THEN Images!Min(covering) ELSE 0
  BY DEF Images!SelectInSeq
<1>2. Images!UnboundedOffset(rva, sections) =
        IF at = 0 THEN Images!Error ELSE sections[at].offset + (rva - sections[at].address)
  BY DEF Images!UnboundedOffset
<1>3. covering \subseteq Nat
  OBVIOUS
<1>4. \A k \in covering : sections[k] \in Sections /\ Images!Covers(sections[k], rva)
  OBVIOUS
<1> HIDE DEF covering, at
<1>5. at # 0 /\ covering # {}
  BY <1>1, <1>2
<1>6. at \in covering
  BY <1>1, <1>3, <1>5, SetsOfNumbersHaveALeast DEF Images!Min
<1>7. sections[at] \in Sections /\ Images!Covers(sections[at], rva)
  BY <1>4, <1>6
<1> DEFINE s == sections[at]
<1>8. s.address \in Nat /\ s.offset \in Nat /\ s.address <= rva
  BY <1>7 DEF Sections, Images!Covers
<1> HIDE DEF s
<1>9. s.offset + (rva - s.address) \in Nat
  BY <1>8
<1> QED
  BY <1>2, <1>5, <1>9 DEF s

(* For any file below 4 GiB: the two readers find the same identity        *)
(* wherever windbg-symbols finds one, unless an NB10 record stands before  *)
(* it, which windbg-tool takes, or windbg-tool fails over the exports      *)
(* (read_codeview, of both crates).                                        *)
THEOREM ReadersAlwaysAgree ==
  ASSUME NEW binary, Readable(binary), NEW named \in BOOLEAN, Images!Identify(binary, named) # "error"
  PROVE  /\ Images!Identify(binary, named) = "RSDS"
         /\ Images!ReadExports(binary).ok =>
              \/ Images!Diagnose(binary) = "RSDS"
              \/ Images!Diagnose(binary) = "NB10" /\ Images!Contains(binary.entries, "NB10")
         /\ Images!ImageIdentity(binary, "image.dll") = "identified"
<1> DEFINE sections == binary.sections
           rva == binary.debugRva
           wide == Images!UnboundedOffset(rva, sections)
           records == Images!EntriesAt(wide, binary)
           found == Images!FirstOf(records, {"unnamed", "RSDS"})
<1>1. /\ binary.entries \in Seq(Images!DebugEntries) /\ Len(binary.entries) <= Images!Top
      /\ binary.debugSize \in Nat /\ rva \in Nat /\ sections \in Seq(Sections)
  BY DEF Readable
<1>2. Images!Headed(binary) /\ binary.sectionsReadable /\ Images!Identify(binary, named) = Images!SymbolCodeView(binary)
  BY DEF Images!Identify
<1>3. /\ rva # 0 /\ binary.debugSize # 0 /\ wide # Images!Error
      /\ found \notin {"none", "unnamed", "error"} /\ Images!SymbolCodeView(binary) = found
  BY <1>2 DEF Images!SymbolCodeView
<1>4. wide \in Nat
  BY <1>1, <1>3, OffsetsAreNumbers
<1>5. /\ records = [i \in 1..binary.debugSize |->
                       IF wide + i \in DOMAIN binary.entries THEN binary.entries[wide + i] ELSE "outside"]
      /\ records \in Seq(Images!DebugEntries) /\ Len(records) = binary.debugSize
  <2>1. records = [i \in 1..binary.debugSize |->
                     IF wide + i \in DOMAIN binary.entries THEN binary.entries[wide + i] ELSE "outside"]
    BY DEF Images!EntriesAt
  <2> HIDE DEF records
  <2>2. \A i \in 1..binary.debugSize : records[i] \in Images!DebugEntries
    <3>1. "outside" \in Images!DebugEntries
      BY DEF Images!DebugEntries
    <3>2. \A k \in DOMAIN binary.entries : binary.entries[k] \in Images!DebugEntries
      BY <1>1
    <3> QED
      BY <2>1, <3>1, <3>2
  <2> DEFINE n == binary.debugSize
  <2>3. DOMAIN records = 1..n /\ n \in Nat /\ records = [i \in 1..n |-> records[i]]
    BY <1>1, <2>1
  <2> HIDE DEF n
  <2>5. \A i \in 1..n : records[i] \in Images!DebugEntries
    BY <2>2 DEF n
  <2>6. records \in [1..n -> Images!DebugEntries]
    BY <2>3, <2>5
  <2>4. records \in Seq(Images!DebugEntries) /\ Len(records) = n
    BY <2>3, <2>6
  <2> QED
    BY <2>1, <2>4 DEF n
<1> HIDE DEF records
<1>15. records \in Seq(Images!DebugEntries)
  BY <1>5
\* The first record that is taken, and where it stands.
<1>6. PICK k \in DOMAIN records : found = records[k] /\ found \in {"unnamed", "RSDS"}
  <2> DEFINE taken == {l \in 1..Len(records) : records[l] \in {"unnamed", "RSDS"} \cup {"outside"}}
             first == Images!SelectInSeq(records, LAMBDA entry : entry \in {"unnamed", "RSDS"} \cup {"outside"})
  <2>1. first = IF taken # {} THEN Images!Min(taken) ELSE 0
    BY DEF Images!SelectInSeq
  <2>2. found = IF first = 0 THEN "none" ELSE IF records[first] = "outside" THEN "error" ELSE records[first]
    BY DEF Images!FirstOf
  <2>6. DOMAIN records = 1..Len(records)
    BY <1>15
  <2>7. taken \subseteq Nat
    OBVIOUS
  <2>3. \A l \in taken : l \in DOMAIN records /\ (records[l] = "outside" \/ records[l] \in {"unnamed", "RSDS"})
    BY <2>6
  <2> HIDE DEF taken, first, found
  <2>4. first # 0 /\ taken # {}
    BY <1>3, <2>1, <2>2
  <2>5. first \in taken
    BY <2>1, <2>7, <2>4, SetsOfNumbersHaveALeast DEF Images!Min
  <2> QED
    BY <1>3, <2>2, <2>3, <2>4, <2>5
<1>7. found = "RSDS"
  BY <1>3, <1>6
\* It is in the file, so that its offset is one of 32 bits.
<1>8. wide <= Images!Top
  <2>1. k \in 1..binary.debugSize /\ records[k] # "outside"
    BY <1>5, <1>6, <1>7
  <2>2. wide + k \in DOMAIN binary.entries
    BY <1>5, <2>1
  <2>3. wide + k <= Len(binary.entries) /\ k \in Nat
    BY <1>1, <1>5, <2>1, <2>2
  <2> QED
    BY <1>1, <1>4, <2>3 DEF Images!Top
<1>9. Images!FileOffset(rva, sections) = wide
  BY <1>3, <1>4, <1>8 DEF Images!FileOffset, Images!Top
<1>10. Images!CodeView(binary) = Images!FirstOf(records, {"unnamed", "RSDS", "NB10"})
  BY <1>3, <1>9 DEF Images!CodeView, records
<1>11. \/ Images!CodeView(binary) = found
       \/ Images!CodeView(binary) = "NB10" /\ \E l \in DOMAIN records : records[l] = "NB10"
  <2> DEFINE more == {"unnamed", "RSDS", "NB10"}  taken == {"unnamed", "RSDS"}
  <2>1. taken \subseteq more /\ more \ (taken \cup {"outside"}) = {"NB10"}
    OBVIOUS
  <2>2. Images!FirstOf(records, taken) \notin {"none", "error"}
    BY <1>3
  <2> HIDE DEF more, taken
  <2>3. \/ Images!FirstOf(records, more) = Images!FirstOf(records, taken)
        \/ \E l \in DOMAIN records : /\ records[l] \in more \ (taken \cup {"outside"})
                                       /\ Images!FirstOf(records, more) = records[l]
    BY <1>15, <2>1, <2>2, FirstOfMore
  <2> QED
    BY <1>10, <2>1, <2>3 DEF more, taken
<1>12. (\E l \in DOMAIN records : records[l] = "NB10") => Images!Contains(binary.entries, "NB10")
  <2> SUFFICES ASSUME NEW l \in DOMAIN records, records[l] = "NB10"
               PROVE  Images!Contains(binary.entries, "NB10")
    OBVIOUS
  <2>1. l \in 1..binary.debugSize
    BY <1>5
  <2>2. wide + l \in DOMAIN binary.entries /\ binary.entries[wide + l] = "NB10"
    BY <1>5, <2>1
  <2>3. wide + l \in 1..Len(binary.entries)
    BY <1>1, <2>2
  <2> QED
    BY <2>2, <2>3 DEF Images!Contains
<1>13. Images!ReadExports(binary).ok => Images!Diagnose(binary) = Images!CodeView(binary)
  BY <1>2 DEF Images!Diagnose
<1>14. Images!ImageIdentity(binary, "image.dll") = "identified"
  BY <1>2 DEF Images!ImageIdentity, Images!SafeFileName
<1> HIDE DEF found
<1> QED
  BY <1>2, <1>3, <1>7, <1>11, <1>12, <1>13, <1>14

-----------------------------------------------------------------------------
(* The pool trackers of a dump.                                            *)

\* An entry of a table: a whole number of entries behind its base.
IsEntryOf(entry, base, size) == base # Dumps!Nothing /\ \E k \in 0..(size - 1) : entry = base + k * Dumps!Stride

(* An address that counts as within the supplied table is an entry of it,  *)
(* and the table ends inside the address space                             *)
(* (pool_tracker_table_relation).                                          *)
LEMMA RelatedIsInside ==
  ASSUME NEW entry \in Nat \cup {Dumps!Nothing}, NEW base \in Nat \cup {Dumps!Nothing}, NEW size \in Nat,
         Dumps!TableRelation(entry, base, size) = "within_supplied_table"
  PROVE  IsEntryOf(entry, base, size) /\ base + size * Dumps!Stride <= Dumps!Top
<1>1. /\ entry # Dumps!Nothing /\ base # Dumps!Nothing /\ Dumps!CheckedAdd(base, size * Dumps!Stride) # Dumps!Nothing
      /\ Dumps!Within(entry, base, size) /\ (entry - base) % Dumps!Stride = 0
  BY DEF Dumps!TableRelation
<1>2. entry \in Nat /\ base \in Nat
  BY <1>1
<1>3. base <= entry /\ entry < base + size * 2 /\ (entry - base) % 2 = 0 /\ base + size * 2 <= Dumps!Top
  BY <1>1, <1>2 DEF Dumps!Within, Dumps!CheckedAdd, Dumps!Stride, Dumps!Top
<1> DEFINE k == (entry - base) \div 2
<1>4. k \in 0..(size - 1) /\ entry = base + k * 2
  BY <1>2, <1>3
<1> QED
  BY <1>1, <1>3, <1>4 DEF IsEntryOf, Dumps!Stride

(* For any entry, tables, size and tags: what is called an entry of the    *)
(* table that was supplied is the start of one inside it, whatever would   *)
(* overflow, and its tag was read; nothing is graded as observed without a *)
(* table that holds it; and a driver is only by its name                   *)
(* (dump_pool_tracker_observation, dump_evidence_grades).                  *)
THEOREM ClassificationsAlwaysEarned ==
  ASSUME NEW entry \in Nat \cup {Dumps!Nothing}, NEW active \in Nat \cup {Dumps!Nothing},
         NEW supplied \in Nat \cup {Dumps!Nothing},
         NEW size \in Nat, NEW tags, NEW drivers, NEW driver
  PROVE  LET tracker == Dumps!PoolTracker(entry, active, supplied, size, tags)
             grade == Dumps!Grades(drivers, tracker, driver)
         IN /\ tracker.classification = "supplied_tracker_table_entry" =>
                 IsEntryOf(entry, supplied, size) /\ supplied + size * Dumps!Stride <= Dumps!Top /\ entry \in tags
            /\ grade.tracker = "observed" =>
                 \/ IsEntryOf(entry, supplied, size)
                 \/ entry # Dumps!Nothing /\ active # Dumps!Nothing /\ entry \in active..(active + size * Dumps!Stride - 1)
            /\ tracker.status = "captured" <=> tracker.classification # "none"
            /\ grade.bugcheckDriver = "observed" <=> driver = "captured"
<1> DEFINE class == Dumps!Classify(entry, active, supplied, size, tags)
           tracker == Dumps!PoolTracker(entry, active, supplied, size, tags)
<1>1. class = "supplied_tracker_table_entry" =>
        Dumps!TableRelation(entry, supplied, size) = "within_supplied_table" /\ entry \in tags
  BY DEF Dumps!Classify
<1>2. class = "active_tracker_table_entry" => entry # Dumps!Nothing /\ Dumps!Within(entry, active, size)
  BY DEF Dumps!Classify
<1>3. class # "none"
  BY DEF Dumps!Classify
<1> HIDE DEF class
<1>4. \/ tracker.status # "captured" /\ tracker.classification = "none"
      \/ tracker.status = "captured" /\ tracker.classification = class /\ active # Dumps!Nothing
  <2>1. CASE active = Dumps!Nothing
    BY <2>1 DEF Dumps!PoolTracker
  <2>2. CASE active = 0
    BY <2>2 DEF Dumps!PoolTracker, Dumps!Nothing
  <2>3. CASE active # Dumps!Nothing /\ active # 0
    BY <2>3 DEF Dumps!PoolTracker, class
  <2> QED
    BY <2>1, <2>2, <2>3
<1> HIDE DEF tracker
<1>5. /\ Dumps!Grades(drivers, tracker, driver).tracker = "observed" =>
           tracker.classification \in {"active_tracker_table_entry", "supplied_tracker_table_entry"}
      /\ Dumps!Grades(drivers, tracker, driver).bugcheckDriver = "observed" <=> driver = "captured"
  BY DEF Dumps!Grades
<1>6. class = "supplied_tracker_table_entry" =>
        IsEntryOf(entry, supplied, size) /\ supplied + size * Dumps!Stride <= Dumps!Top /\ entry \in tags
  BY <1>1, RelatedIsInside
<1>7. class = "active_tracker_table_entry" /\ active # Dumps!Nothing =>
        entry # Dumps!Nothing /\ entry \in active..(active + size * Dumps!Stride - 1)
  <2> SUFFICES ASSUME class = "active_tracker_table_entry", active # Dumps!Nothing
               PROVE  entry # Dumps!Nothing /\ entry \in active..(active + size * Dumps!Stride - 1)
    OBVIOUS
  <2>1. entry # Dumps!Nothing /\ active <= entry /\ entry < active + size * 2
    BY <1>2 DEF Dumps!Within, Dumps!Stride
  <2>2. entry \in Nat /\ active \in Nat
    BY <2>1
  <2> QED
    BY <2>1, <2>2 DEF Dumps!Stride
<1> QED
  BY <1>3, <1>4, <1>5, <1>6, <1>7 DEF tracker
=============================================================================
