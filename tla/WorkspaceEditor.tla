--------------------------- MODULE WorkspaceEditor --------------------------
(***************************************************************************)
(* The candidate's editor and its diffs: the page debounces edits, turns   *)
(* them into patches and posts them one at a time; the Candidate Workspace *)
(* checks and records each; replay rebuilds the files from what it has     *)
(* recorded.  Pages are reloaded, posts and answers are lost, a post that  *)
(* failed at the page is handled late, the session ends, and code is run   *)
(* meanwhile.                                                              *)
(*                                                                         *)
(* A text is a sequence of lines; one in OpenLines lacks its newline and   *)
(* is the last.  A patch has one hunk that begins with the text: texts     *)
(* stand for ones no longer than the three lines of a hunk's context.      *)
(* RecordDiff and the numbering of events are one step here;               *)
(* WorkspaceStore takes their transaction apart.                           *)
(*                                                                         *)
(* A definition named X_Y is X with a fault Y: the properties below must   *)
(* fail when it takes the place of X.                                      *)
(***************************************************************************)
EXTENDS Integers, Sequences, FiniteSets, FiniteSetsExt, SequencesExt

CONSTANTS
    Paths,      \* the file of each language
    Starter,    \* the text each starts from, here and in the company's replay
    First,      \* the file a page begins with
    Texts,      \* what candidate and assistant write
    OpenLines,  \* lines without a newline
    MaxPatch,   \* maxPatchBytes, in lines of a hunk
    MaxInputs,  \* bound: edits, suggestions, runs and changes of language
    MaxLosses   \* bound: posts that fail, reloads

ASSUME PathsAssumption == First \in Paths /\ Starter \in [Paths -> Texts]
ASSUME TextsAssumption ==
    \A t \in Texts : t \in Seq(Range(t)) /\ \A k \in 1..(Len(t) - 1) : t[k] \notin OpenLines
ASSUME EditorBounds == MaxPatch \in Nat /\ MaxInputs \in Nat /\ MaxLosses \in Nat

VARIABLES
    file,      \* the file in the editor
    ed,        \* the page's DiffDebouncer
    run,       \* the page's run: waiting for the queue, or none
    wire,      \* requests the workspace has not handled yet, in the order they were sent
    answer,    \* whether the page's post has been answered, or has failed
    session,   \* the candidate's session is active
    lastDiff,  \* sessions.last_diff_sequence
    log,       \* the code.diff events, in the order of their numbers
    ran,       \* history: the runs requested
    strayed,   \* history: files whose edits were lost, by a fault or a reset
    inputs,    \* inputs so far
    losses     \* losses so far

editorVars == <<file, ed, run, wire, answer, session, lastDiff, log, ran, strayed, inputs, losses>>
pageVars == <<file, ed, run>>
serverVars == <<session, lastDiff, log>>

-----------------------------------------------------------------------------
(* Patches.                                                                *)

CommonPrefix(s, t) == Max({k \in 0..Min({Len(s), Len(t)}) : SubSeq(s, 1, k) = SubSeq(t, 1, k)})

(* The lines of a hunk are context, removed or added; a line without a     *)
(* newline is followed by the mark "\ No newline at end of file".          *)
Marked(kind, s) ==
    FlattenSeq([k \in DOMAIN s |->
        IF s[k] \in OpenLines THEN <<[kind |-> kind, line |-> s[k]], [kind |-> "mark", line |-> s[k]]>>
                              ELSE <<[kind |-> kind, line |-> s[k]]>>])

(* The library's diff of two different texts: what they begin with is      *)
(* context, and the rest is replaced.                                      *)
structuredPatch(before, after) ==
    LET n == CommonPrefix(before, after)
        body == Marked("context", SubSeq(before, 1, n))
                \o Marked("removed", SubSeq(before, n + 1, Len(before)))
                \o Marked("added", SubSeq(after, n + 1, Len(after)))
    IN [oldLines |-> Len(before), newLines |-> Len(after), lines |-> body]

(* Of a hunk's lines, those of some kinds. *)
Keep(kept, kinds, l) == IF l.kind \in kinds THEN Append(kept, l) ELSE kept
OfKind(lines, kinds) ==
    LET kept[n \in 0..Len(lines)] == IF n = 0 THEN <<>> ELSE Keep(kept[n - 1], kinds, lines[n])
    IN kept[Len(lines)]
Texting(lines) == [k \in DOMAIN lines |-> lines[k].line]

(* The body of a hunk must match the counts in its header. *)
countUnifiedDiff(hunk) ==
    [ok |-> /\ Len(OfKind(hunk.lines, {"removed", "context"})) = hunk.oldLines
            /\ Len(OfKind(hunk.lines, {"added", "context"})) = hunk.newLines,
     added |-> Len(OfKind(hunk.lines, {"added"})), removed |-> Len(OfKind(hunk.lines, {"removed"}))]

(* The library's applyPatch: the hunk's old lines are replaced where they  *)
(* are found, as near to the start as possible.                            *)
NoText == <<"applyPatch failed">>
ASSUME NoTextAssumption == NoText \notin Texts
applyPatch(text, hunk) ==
    LET old == Texting(OfKind(hunk.lines, {"removed", "context"}))
        new == Texting(OfKind(hunk.lines, {"added", "context"}))
        places == {p \in 1..(Len(text) - Len(old) + 1) : SubSeq(text, p, p + Len(old) - 1) = old}
    IN IF places = {} THEN NoText
       ELSE LET p == Min(places)
            IN SubSeq(text, 1, p - 1) \o new \o SubSeq(text, p + Len(old), Len(text))

(* The reading of one event: a patch that does not apply is skipped. *)
ReplayStep(text, p, e) ==
    LET next == applyPatch(text, e.patch) IN
    IF e.path # p \/ next = NoText THEN text ELSE next

(* replayState: what the first k events make of a text. *)
Replay(text, events, p, k) ==
    LET texts[n \in 0..Len(events)] == IF n = 0 THEN text ELSE ReplayStep(texts[n - 1], p, events[n])
    IN texts[k]
Replayed(p, k) == Replay(Starter[p], log, p, k)

-----------------------------------------------------------------------------
(* DiffDebouncer.  `by` is history: who changed a file since its last      *)
(* queued diff.                                                            *)

track(e, p, content) ==
    [e EXCEPT !.posted[p] = content, !.current[p] = content, !.by[p] = {}]

NewDebouncer ==
    [posted |-> Starter, current |-> Starter, timers |-> {}, sequence |-> 0, queue |-> <<>>,
     by |-> [p \in Paths |-> {}]]

(* The patch is computed now, against what was queued last. *)
enqueue(e, p, origin) ==
    IF e.posted[p] = e.current[p] THEN [e EXCEPT !.by[p] = {}]
    ELSE [e EXCEPT !.sequence = @ + 1, !.by[p] = {},
                   !.posted[p] = e.current[p],
                   !.queue = Append(@, [clientSeq |-> e.sequence + 1, origin |-> origin, path |-> p,
                                        patch |-> structuredPatch(e.posted[p], e.current[p]),
                                        by |-> e.by[p]])]

flushPath_Never(e, p) == e
flushPath(e, p) ==
    IF p \in e.timers THEN enqueue([e EXCEPT !.timers = @ \ {p}], p, "manual") ELSE e

flush(e) == FoldSet(LAMBDA p, acc : flushPath(acc, p), e, e.timers)

Written(e, p, content, origin) ==
    [e EXCEPT !.current[p] = content,
              !.by[p] = IF content = e.current[p] THEN @ ELSE @ \cup {origin}]

-----------------------------------------------------------------------------
(* The page.                                                               *)

NoRun == [pc |-> "none", path |-> First, text |-> <<>>, after |-> 0]

Input ==
    /\ inputs < MaxInputs
    /\ inputs' = inputs + 1
    /\ UNCHANGED <<wire, answer, serverVars, ran, losses>>

Edit ==
    /\ Input
    /\ \E content \in Texts \ {ed.current[file]} :
          ed' = [Written(ed, file, content, "manual") EXCEPT !.timers = @ \cup {file}]
    /\ UNCHANGED <<file, run, strayed>>

(* Pending edits are flushed first, so that each diff has one origin. *)
ApplyAI ==
    /\ Input
    /\ \E content \in Texts :
          ed' = enqueue(Written(flushPath(ed, file), file, content, "ai_applied"), file, "ai_applied")
    /\ UNCHANGED <<file, run, strayed>>

SwitchLanguage_Unflushed ==
    /\ Input
    /\ \E next \in Paths \ {file} :
          /\ ed' = [track(ed, next, Starter[next]) EXCEPT !.timers = {}]
          /\ file' = next
          /\ strayed' = IF ed.current[next] = Starter[next] THEN strayed ELSE strayed \cup {next}
    /\ UNCHANGED run
(* The file that comes up shows its starter again, whatever was written to *)
(* it before.                                                              *)
SwitchLanguage ==
    /\ Input
    /\ \E next \in Paths \ {file} :
          /\ ed' = track(flush(ed), next, Starter[next])
          /\ file' = next
          /\ strayed' = IF ed.current[next] = Starter[next] THEN strayed ELSE strayed \cup {next}
    /\ UNCHANGED run

TimerFires ==
    /\ \E p \in ed.timers : ed' = flushPath(ed, p)
    /\ UNCHANGED <<file, run, wire, answer, serverVars, ran, strayed, inputs, losses>>

(* Run is clicked.  The code is that of this moment; it is sent when the   *)
(* posts queued by now have ended.                                         *)
RunClicked ==
    /\ Input
    /\ run.pc = "none"
    /\ ed' = flush(ed)
    /\ run' = [pc |-> "flush", path |-> file, text |-> ed.current[file], after |-> ed'.sequence]
    /\ UNCHANGED <<file, strayed>>

Flushed_Never(e, r) == TRUE
(* The queue's promise of that moment is resolved. *)
Flushed(e, r) == \A q \in Range(e.queue) : q.clientSeq > r.after

(* Requests that may still be handled although the page has gone on: all   *)
(* on the wire but the one it waits for, which is the last.                *)
GivenUp == IF answer = "awaited" THEN Front(wire) ELSE wire
Unsettled(p) == p \in strayed \/ \E r \in Range(GivenUp) : r.path = p

(* execution.requested is recorded, or the run is refused or fails. *)
RunCode ==
    /\ run.pc = "flush"
    /\ Flushed(ed, run)
    /\ \/ /\ session = "active"
          /\ ran' = ran \cup {[path |-> run.path, text |-> run.text, at |-> Len(log),
                               unsettled |-> Unsettled(run.path)]}
       \/ UNCHANGED ran
    /\ run' = NoRun
    /\ UNCHANGED <<file, ed, wire, answer, serverVars, strayed, inputs, losses>>

(* submitDiff sends the oldest request; the next waits for its answer. *)
Post ==
    /\ ed.queue # <<>>
    /\ answer = "none"
    /\ answer' = "awaited"
    /\ wire' = Append(wire, Head(ed.queue))
    /\ UNCHANGED <<pageVars, serverVars, ran, strayed, inputs, losses>>

(* The fetch is rejected, a connection that broke or a proxy that gave up: *)
(* an outcome like any other to the page, while the workspace may still    *)
(* have the request before it.                                             *)
PostFails ==
    /\ answer = "awaited"
    /\ losses < MaxLosses
    /\ losses' = losses + 1
    /\ answer' = "answered"
    /\ UNCHANGED <<pageVars, wire, serverVars, ran, strayed, inputs>>

(* onPosted: the outcome is reported to a callback, which this page has    *)
(* not, and the queue goes on.                                             *)
Posted ==
    /\ answer = "answered"
    /\ answer' = "none"
    /\ ed' = [ed EXCEPT !.queue = Tail(@)]
    /\ UNCHANGED <<file, run, wire, serverVars, ran, strayed, inputs, losses>>

(* The page is loaded again: the session token is kept, in the tab's       *)
(* storage, and nothing else.                                              *)
Reload ==
    /\ losses < MaxLosses
    /\ losses' = losses + 1
    /\ file' = First
    /\ ed' = NewDebouncer
    /\ run' = NoRun
    /\ answer' = "none"
    /\ strayed' = Paths
    /\ UNCHANGED <<wire, serverVars, ran, inputs>>

-----------------------------------------------------------------------------
(* The workspace.                                                          *)

RequireActiveSession == session = "active"

ValidatePath(p) == p \in Paths

validateDiff(r) ==
    /\ r.clientSeq >= 1
    /\ r.origin \in {"manual", "ai_applied"}
    /\ ValidatePath(r.path)
    /\ Len(r.patch.lines) \in 1..MaxPatch
    /\ countUnifiedDiff(r.patch).ok

(* The request leaves the wire.  The one the page waits for, the last, is  *)
(* answered; nobody waits for another.                                     *)
Answered(i) ==
    /\ wire' = RemoveAt(wire, i)
    /\ answer' = IF answer = "awaited" /\ i = Len(wire) THEN "answered" ELSE answer

RecordDiff(r) ==
    /\ lastDiff < r.clientSeq
    /\ lastDiff' = r.clientSeq
    /\ log' = Append(log, r)
    /\ UNCHANGED strayed

(* Accepted is false, and no error: the edit is lost all the same. *)
OutOfOrder(r) ==
    /\ lastDiff >= r.clientSeq
    /\ strayed' = strayed \cup {r.path}
    /\ UNCHANGED <<lastDiff, log>>

(* 400 or 409: the edit is lost, and later patches build on it. *)
Refused(r) ==
    /\ ~RequireActiveSession \/ ~validateDiff(r)
    /\ strayed' = strayed \cup {r.path}
    /\ UNCHANGED <<lastDiff, log>>

SubmitDiff(i) ==
    /\ \/ RequireActiveSession /\ validateDiff(wire[i]) /\ (RecordDiff(wire[i]) \/ OutOfOrder(wire[i]))
       \/ Refused(wire[i])
    /\ Answered(i)
    /\ UNCHANGED <<pageVars, session, ran, inputs, losses>>

(* 503, the transaction rolled back; or the request never arrives.  A      *)
(* commit whose answer is lost is RecordDiff: the page does not tell.  The *)
(* context of a request that was given up is cancelled: no new failure.    *)
SubmitFails(i) ==
    /\ \/ i \in DOMAIN GivenUp /\ UNCHANGED losses
       \/ i \notin DOMAIN GivenUp /\ losses < MaxLosses /\ losses' = losses + 1
    /\ strayed' = strayed \cup {wire[i].path}
    /\ Answered(i)
    /\ UNCHANGED <<pageVars, session, lastDiff, log, ran, inputs>>

SessionEnds ==
    /\ session = "active"
    /\ session' = "ended"
    /\ UNCHANGED <<pageVars, wire, answer, lastDiff, log, ran, strayed, inputs, losses>>

-----------------------------------------------------------------------------

EditorInit ==
    /\ file = First
    /\ ed = NewDebouncer
    /\ run = NoRun
    /\ wire = <<>>
    /\ answer = "none"
    /\ session = "active"
    /\ lastDiff = 0
    /\ log = <<>>
    /\ ran = {}
    /\ strayed = {}
    /\ inputs = 0
    /\ losses = 0

Page == TimerFires \/ Post \/ Posted \/ RunCode
Handle == \E i \in DOMAIN wire : SubmitDiff(i)

EditorNext ==
    \/ Edit \/ ApplyAI \/ SwitchLanguage \/ RunClicked \/ Page \/ PostFails \/ Reload
    \/ Handle \/ \E i \in DOMAIN wire : SubmitFails(i)
    \/ SessionEnds

EditorSpec == EditorInit /\ [][EditorNext]_editorVars

(* Timers fire, and a request is sent and answered, if only by an error. *)
FairEditorSpec ==
    /\ EditorSpec
    /\ WF_editorVars(TimerFires) /\ WF_editorVars(Post) /\ WF_editorVars(Posted) /\ WF_editorVars(RunCode)
    /\ WF_editorVars(Handle)

-----------------------------------------------------------------------------
(* Properties.                                                             *)

(* Every variable has its type. *)
DiffRequest ==
    [clientSeq : Nat, origin : {"manual", "ai_applied"}, path : Paths,
     patch : {structuredPatch(s, t) : s \in Texts, t \in Texts}, by : SUBSET {"manual", "ai_applied"}]
EditorTypeOK ==
    /\ file \in Paths
    /\ ed \in [posted : [Paths -> Texts], current : [Paths -> Texts], timers : SUBSET Paths, sequence : Nat,
               queue : Seq(DiffRequest), by : [Paths -> SUBSET {"manual", "ai_applied"}]]
    /\ run \in [pc : {"none", "flush"}, path : Paths, text : Texts \cup {<<>>}, after : Nat]
    /\ wire \in Seq(DiffRequest)
    /\ answer \in {"none", "awaited", "answered"}
    /\ session \in {"active", "ended"}
    /\ lastDiff \in Nat
    /\ log \in Seq(DiffRequest)
    /\ ran \subseteq [path : Paths, text : Texts, at : 0..Len(log), unsettled : BOOLEAN]
    /\ strayed \subseteq Paths
    /\ inputs \in 0..MaxInputs
    /\ losses \in 0..MaxLosses

(* Each diff has one, correct origin: an applied suggestion never carries  *)
(* keystrokes that were still waiting for their timer, nor a manual diff a *)
(* suggestion.                                                             *)
OriginsTrue == \A r \in Range(wire) \cup Range(ed.queue) \cup Range(log) : r.by \subseteq {r.origin}

(* "so the event log shows the code that ran": a run's code is a text that *)
(* replay shows of its file at or before execution.requested, unless an    *)
(* edit of the file was lost on the way or a post of it had failed at the  *)
(* page and the workspace had not handled it yet.                          *)
RunsShown ==
    \A r \in ran : r.unsettled \/ \E k \in 0..r.at : Replayed(r.path, k) = r.text

(* In the end replay shows what the editor shows, of every file no edit of *)
(* which was lost: bursts that are queued behind a post in flight,         *)
(* suggestions, answers that never arrive and posts that are recorded      *)
(* after the page gave them up break no patch.  A post that the next one   *)
(* has overtaken is lost (OutOfOrder).                                     *)
EditorIsLogged == <>[](\A p \in Paths \ strayed : Replayed(p, Len(log)) = ed.current[p])

=============================================================================
