---------------------------- MODULE OutputCapture ----------------------------
(***************************************************************************)
(* The bounded capture of a debuggee's output (crates/windbg-dbgeng,       *)
(* lib.rs, DebuggerOutputCapture): a callback and a mask are installed in  *)
(* the engine's client, the callback retains what fits, and both are put   *)
(* back.  Each call into DbgEng may fail.  A text is its length.           *)
(***************************************************************************)
EXTENDS Naturals, Sequences, SequencesExt

CONSTANTS
  MaxRecords,   (* max_output_records                                      *)
  MaxChars,     (* max_output_chars, per record                            *)
  MaxTotal      (* max_total_output_chars                                  *)

ASSUME CaptureAssumption ==
  /\ MaxRecords \in Nat \ {0}
  /\ MaxChars \in Nat \ {0}
  /\ MaxTotal \in Nat \ {0}

VARIABLES
  callback,     (* the output callback of the client: "none" or "capture"  *)
  mask,         (* its output mask: "default", or with "debuggee" bits     *)
  capture,      (* the DebuggerOutputCapture of the running call           *)
  stuck         (* history: the engine refused to put a callback or a mask *)
                (* back                                                    *)

captureVars == <<callback, mask, capture, stuck>>

NoCapture == [active |-> FALSE]

CaptureInit ==
  /\ callback = "none"
  /\ mask = "default"
  /\ capture = NoCapture
  /\ stuck = FALSE

-----------------------------------------------------------------------------
(* DebuggerOutputCaptureShared::record.                                    *)

Least(a, b, c) == Min({a, b, c})

\* Faulty: what a full list drops is counted as a record but not in chars.
DropRecordOnly(c, chars) == [c EXCEPT !.droppedRecords = @ + 1]

\* The list of records is full.
DropRecord(c, chars) ==
  [c EXCEPT !.droppedRecords = @ + 1, !.droppedChars = @ + chars]

Retain(c, chars) ==
  LET kept == Least(chars, MaxChars, MaxTotal - c.total)
  IN [c EXCEPT !.records = Append(@, [chars |-> kept, truncated |-> kept < chars]),
               !.total = @ + kept,
               !.droppedChars = @ + (chars - kept)]

Recorded(c, chars) ==
  IF Len(c.records) >= MaxRecords THEN DropRecord(c, chars) ELSE Retain(c, chars)

(* IDebugOutputCallbacksWide::Output.  `written` and `chars` are what the  *)
(* debuggee has written since the capture began.                           *)
Output(category, chars) ==
  /\ capture' =
       IF ~capture.active \/ callback # "capture" \/ category # "debuggee"
       THEN capture
       ELSE [Recorded(capture, chars) EXCEPT
               !.written = @ + 1, !.chars = @ + chars]
  /\ UNCHANGED <<callback, mask, stuck>>

-----------------------------------------------------------------------------
(* Installing and restoring.                                               *)

CaptureWith(previous) ==
  [active |-> TRUE, previous |-> previous, previousMask |-> mask,
   records |-> <<>>, total |-> 0, droppedRecords |-> 0, droppedChars |-> 0,
   written |-> 0, chars |-> 0]

(* begin_debuggee_output_capture.  Reading the previous callback may fail, *)
(* and counts as none.                                                     *)
BeginCapture ==
  \E previous \in {callback, "none"} :
    /\ callback' = "capture"
    /\ mask' = "debuggee"
    /\ capture' = CaptureWith(previous)
    /\ UNCHANGED stuck

(* It fails before anything is installed, or at the mask: the callback is  *)
(* put back, and a failure of that is ignored.                             *)
BeginCaptureFails ==
  /\ \/ UNCHANGED <<callback, stuck>>
     \/ callback' \in {callback, "none"} /\ UNCHANGED stuck
     \/ callback' = "capture" /\ stuck' = TRUE
  /\ UNCHANGED <<mask, capture>>

(* DebuggerOutputCapture::restore sets the callback, then the mask: how far *)
(* an attempt gets.                                                        *)
Attempts == {"restored", "mask_refused", "callback_refused"}

(* What a series of attempts leaves installed.                             *)
Restore(attempts) ==
  /\ callback' = IF attempts = {"callback_refused"} THEN callback ELSE capture.previous
  /\ mask' = IF "restored" \in attempts THEN capture.previousMask ELSE mask

\* Faulty: a capture that could not be restored is dropped without another try.
FinishOnce(ok) ==
  /\ \E first \in Attempts : ok = (first = "restored") /\ Restore({first})
  /\ capture' = NoCapture
  /\ UNCHANGED stuck

(* finish: when restoring fails, dropping the capture tries once more, but *)
(* the answer is the first error.                                          *)
FinishCapture(ok) ==
  /\ \E first, second \in Attempts :
       /\ ok = (first = "restored")
       /\ ok => second = "restored"
       /\ Restore({first, second})
       /\ stuck' = (stuck \/ second # "restored")
  /\ capture' = NoCapture

-----------------------------------------------------------------------------

\* What is in the records.
CharsOf(records) ==
  LET upTo[n \in 0..Len(records)] ==
        IF n = 0 THEN 0 ELSE upTo[n - 1] + records[n].chars
  IN upTo[Len(records)]

(* Everything the debuggee wrote is either in the records or counted as    *)
(* dropped, to the character, and no limit is exceeded, however the three  *)
(* limits meet (record, snapshot).                                         *)
NothingUncounted ==
  capture.active =>
    /\ Len(capture.records) + capture.droppedRecords = capture.written
    /\ capture.total + capture.droppedChars = capture.chars
    /\ CharsOf(capture.records) = capture.total
    /\ Len(capture.records) <= MaxRecords
    /\ capture.total <= MaxTotal
    /\ \A i \in DOMAIN capture.records : capture.records[i].chars <= MaxChars

(* Between two calls the client's output goes where it went before, unless *)
(* the engine has refused to take a callback or a mask back, twice (finish, *)
(* Drop, begin_debuggee_output_capture).                                   *)
OutputRestored ==
  ~capture.active /\ ~stuck => callback = "none" /\ mask = "default"
=============================================================================
