------------------------------ MODULE Composer ------------------------------
(* Drafts and attachments: the Composer of a browser window (ChatPanel.tsx),  *)
(* the drafts it keeps in the window's sessionStorage (drafts.ts), the parts  *)
(* of the workspace that touch them (index.tsx), and the daemon's copies of   *)
(* attached files (attachments.ts).                                           *)
(*                                                                            *)
(* Every Bot has one conversation here. A text is the set of the words in it, *)
(* typed or dictated, every word entered once: what matters is which words    *)
(* are where, and not their order, the cursor or the dictation anchor.        *)
EXTENDS Naturals, FiniteSets, FiniteSetsExt

CONSTANTS Bots,
          Files,      \* the files of the user's machine that may be attached
          Fallback,   \* the Bot the workspace selects after one was deleted, itself never deleted
          MaxWords,   \* bound: words typed and dictated
          MaxTokens,  \* bound: attachment draft tokens
          MaxCalls,   \* bound: requests under way
          MaxMoves    \* bound: other things the user does

ASSUME ComposerAssumption ==
  Fallback \in Bots /\ {MaxWords, MaxTokens, MaxCalls, MaxMoves} \subseteq Nat

VARIABLES page,    \* the Composer's state
          store,   \* sessionStorage: the draft of every conversation
          calls,   \* requests to the daemon whose continuation has not run
          uploads,    \* the attachments table
          disk,    \* where the bytes of a file are
          bots,    \* "here", "cleaning", "failed" (a deletion, the Bot remains) or "gone"
          mail,    \* messages the daemon accepted
          home,    \* ghost: the conversation every word was entered in
          moves    \* ghost: how often the user acted, and the newest token

composerVars == <<page, store, calls, uploads, disk, bots, mail, home, moves>>

NoToken == 0
EmptyDraft == [text |-> {}, files |-> {}, token |-> NoToken]
NotRestoring == [files |-> {}, draft |-> EmptyDraft, found |-> {}, missing |-> {}, asked |-> FALSE]
NoOrigin == "none"

\* The page opens on the first Bot of a new window.
ComposerInit ==
  /\ page = [selected |-> Fallback, draft |-> EmptyDraft, drawer |-> {}, restoring |-> NotRestoring,
             voice |-> "idle", origin |-> NoOrigin]
  /\ store = [b \in Bots |-> EmptyDraft]
  /\ calls = {}
  /\ uploads = [f \in Files |-> [kind |-> "none", bot |-> Fallback, token |-> NoToken]]
  /\ disk = [f \in Files |-> "none"]
  /\ bots = [b \in Bots |-> "here"]
  /\ mail = {}
  /\ home = <<>>
  /\ moves = [count |-> 0, token |-> NoToken]

-----------------------------------------------------------------------------
(* The window.                                                                *)

\* A request: what it asks, for which Bot, with which words and files under which token,
\* and the draft its continuation goes back to.
Call(kind, bot, text, files, token, kept) ==
  [kind |-> kind, bot |-> bot, text |-> text, files |-> files, token |-> token, kept |-> kept,
   phase |-> "sent"]

Ask(c) == calls' = calls \cup {c}
Phase(c, phase) == calls' = (calls \ {c}) \cup {[c EXCEPT !.phase = phase]}
Heard(c) == calls' = calls \ {c}

\* The request was carried out; its answer may be lost, which the window takes for a failure.
Reply(c, phase) == \E p \in {phase, "failed"} : Phase(c, p)

\* A Bot that is not being deleted.
Alive(b) == bots[b] \in {"here", "failed"}

\* The confirmation dialog of a deletion is modal until its request is answered.
Modal == \E c \in calls : c.kind = "delete"

\* The user acts in the selected conversation.
UserActs ==
  /\ ~Modal
  /\ moves.count < MaxMoves
  /\ Cardinality(calls) < MaxCalls

Counted == moves' = [moves EXCEPT !.count = @ + 1]
Saved(b, d) == store' = [store EXCEPT ![b] = d]

\* Mutant: a late answer shows the origin's draft in whatever conversation is selected.
ShowAnywhere(p, b, d) == [p EXCEPT !.draft = d]

\* A late answer: the editor shows the draft of its origin only while that is selected.
ShowAtOrigin(p, b, d) == IF p.selected = b THEN [p EXCEPT !.draft = d] ELSE p

\* The effect that restores the staged files of the conversation that was selected. A draft
\* without a token gives up its files.
Entered(p, b) ==
  LET kept == IF store[b].token = NoToken THEN [store[b] EXCEPT !.files = {}] ELSE store[b]
  IN [p EXCEPT !.selected = b, !.draft = kept, !.drawer = {},
               !.restoring = IF kept.files = {} THEN NotRestoring
                             ELSE [NotRestoring EXCEPT !.files = kept.files, !.draft = kept,
                                                       !.asked = TRUE]]

Select(b) ==
  /\ UserActs /\ Counted
  /\ b # page.selected /\ bots[b] # "gone"
  /\ page' = Entered(page, b)
  /\ Saved(b, Entered(page, b).draft)
  /\ UNCHANGED <<calls, uploads, disk, bots, mail, home>>

\* The daemon's answers to the reads of the staged files: 404 unless the file is staged under
\* the draft's token, and nothing for one that could not be asked.
RestoreAnswered ==
  LET r == page.restoring IN
  /\ r.asked
  /\ \E unavailable \in SUBSET r.files :
       LET found == {f \in r.files \ unavailable :
                       uploads[f].kind = "staged" /\ uploads[f].token = r.draft.token}
       IN page' = [page EXCEPT !.restoring.asked = FALSE, !.restoring.found = found,
                               !.restoring.missing = r.files \ (unavailable \cup found)]
  /\ UNCHANGED <<store, calls, uploads, disk, bots, mail, home, moves>>

\* Its continuation shows the draft that was read when the conversation was entered, less
\* the files that are no longer available. A conversation left, or a file staged meanwhile,
\* has made it void.
RestoreEnds ==
  LET r == page.restoring
      left == r.files \ r.missing
      next == [r.draft EXCEPT !.files = left, !.token = IF left = {} THEN NoToken ELSE @]
  IN
  /\ r.files # {} /\ ~r.asked
  /\ page' = [page EXCEPT !.draft = next, !.drawer = r.found, !.restoring = NotRestoring]
  /\ IF r.missing # {} THEN Saved(page.selected, next) ELSE UNCHANGED store
  /\ UNCHANGED <<calls, uploads, disk, bots, mail, home, moves>>

NextWord == Cardinality(DOMAIN home) + 1
Enters(w, b) == home' = [v \in DOMAIN home \cup {w} |-> IF v = w THEN b ELSE home[v]]

\* The Composer stores what the editor holds after every change.
Edited(d) == page' = [page EXCEPT !.draft = d] /\ Saved(page.selected, d)

Type ==
  /\ UserActs /\ NextWord <= MaxWords
  /\ Edited([page.draft EXCEPT !.text = @ \cup {NextWord}])
  /\ Enters(NextWord, page.selected)
  /\ UNCHANGED <<calls, uploads, disk, bots, mail, moves>>

\* A key or a click in the editor stores its draft again, with the cursor.
RememberCursor ==
  /\ UserActs /\ page.draft # store[page.selected]
  /\ Saved(page.selected, page.draft)
  /\ UNCHANGED <<page, calls, uploads, disk, bots, mail, home, moves>>

-----------------------------------------------------------------------------
(* Attachments.                                                               *)

\* stageFiles, for one file: the stored draft owns a token before the upload begins.
Stage(f) ==
  LET b == page.selected
      token == IF store[b].token # NoToken THEN store[b].token ELSE moves.token + 1
  IN
  /\ UserActs /\ token <= MaxTokens
  /\ uploads[f].kind = "none"
  /\ \A c \in calls : f \notin c.files
  /\ Saved(b, [store[b] EXCEPT !.token = token])
  /\ page' = [page EXCEPT !.draft.token = token]
  /\ Ask(Call("upload", b, {}, {f}, token, EmptyDraft))
  /\ moves' = [count |-> moves.count + 1, token |-> IF token > moves.token THEN token ELSE moves.token]
  /\ UNCHANGED <<uploads, disk, bots, mail, home>>

\* AttachmentsService.stage: the bytes are written, then the row, which a Bot that is gone refuses.
Staged(c) ==
  /\ c.kind = "upload" /\ c.phase = "sent" /\ bots[c.bot] # "gone"
  /\ uploads' = [f \in Files |-> IF f \in c.files THEN [kind |-> "staged", bot |-> c.bot, token |-> c.token]
                              ELSE uploads[f]]
  /\ disk' = [f \in Files |-> IF f \in c.files THEN "staged" ELSE disk[f]]
  /\ Phase(c, "done")
  /\ UNCHANGED <<page, store, bots, mail, home, moves>>

\* The upload's continuation in stageFiles: a restore under way is void.
StageEnds(c) ==
  LET next == [store[c.bot] EXCEPT !.files = @ \cup c.files, !.token = c.token] IN
  /\ c.kind = "upload" /\ c.phase = "done"
  /\ Saved(c.bot, next)
  /\ page' = IF page.selected # c.bot THEN page
             ELSE [ShowAtOrigin(page, c.bot, next) EXCEPT !.drawer = @ \cup c.files,
                                                          !.restoring = NotRestoring]
  /\ Heard(c)
  /\ UNCHANGED <<uploads, disk, bots, mail, home, moves>>

\* removeStagedAttachment: the draft gives the file up before the daemon does.
RemoveUpload(f) ==
  LET b == page.selected
      stored == store[b]
      next == [stored EXCEPT !.files = @ \ {f}]
  IN
  /\ UserActs /\ Counted
  /\ f \in page.drawer
  /\ Saved(b, next)
  /\ page' = [page EXCEPT !.draft = next, !.drawer = @ \ {f}]
  /\ IF stored.token = NoToken THEN UNCHANGED calls
     ELSE Ask(Call("remove", b, {}, {f}, stored.token, stored))
  /\ UNCHANGED <<uploads, disk, bots, mail, home>>

\* Mutant: deleteStaged does not ask whether the file was promoted meanwhile.
UnstagesAny(f, token) == uploads[f].kind \in {"staged", "managed"}

\* deleteStaged
Unstages(f, token) == uploads[f].kind = "staged" /\ uploads[f].token = token

Dropped(fs) ==
  /\ uploads' = [f \in Files |-> IF f \in fs THEN [uploads[f] EXCEPT !.kind = "gone"] ELSE uploads[f]]
  /\ disk' = [f \in Files |-> IF f \in fs THEN "none" ELSE disk[f]]

\* DELETE of a staged file: 204, or 404 when it is not staged under the token.
Unstaged(c) ==
  /\ c.kind = "remove" /\ c.phase = "sent"
  /\ LET taken == {f \in c.files : Unstages(f, c.token)}
     IN Dropped(taken) /\ Reply(c, IF taken # {} THEN "done" ELSE "failed")
  /\ UNCHANGED <<page, store, bots, mail, home, moves>>

RemoveEnds(c) ==
  /\ c.kind = "remove"
  /\ \/ /\ c.phase = "done"
        /\ UNCHANGED <<page, store>>
     \/ /\ c.phase = "failed"  \* the draft as it was before the removal comes back
        /\ Saved(c.bot, c.kept)
        /\ page' = IF page.selected # c.bot THEN page
                   ELSE [ShowAtOrigin(page, c.bot, c.kept) EXCEPT !.drawer = @ \cup c.files]
  /\ Heard(c)
  /\ UNCHANGED <<uploads, disk, bots, mail, home, moves>>

-----------------------------------------------------------------------------
(* Sending.                                                                   *)

\* send: the editor of the library empties itself on submit, and reports that as an edit.
SendMessage ==
  LET b == page.selected d == page.draft IN
  /\ UserActs /\ Counted
  /\ d.text # {}
  /\ Ask(Call("send", b, d.text, d.files, d.token, d))
  /\ Edited([d EXCEPT !.text = {}])
  /\ UNCHANGED <<uploads, disk, bots, mail, home>>

\* promoteForMessage refuses a file that is not staged for this Bot under this token.
Promotable(c) ==
  \A f \in c.files : uploads[f].kind = "staged" /\ uploads[f].bot = c.bot /\ uploads[f].token = c.token

\* The message, its turn and its files are one transaction.
Accepted(c) ==
  /\ c.kind \in {"send", "voice"} /\ c.phase = "sent"
  /\ Alive(c.bot)
  /\ LET sent == IF c.kind = "send" THEN c.files ELSE {} IN
     /\ \A f \in sent : uploads[f].kind = "staged" /\ disk[f] = "staged"
     /\ Promotable([c EXCEPT !.files = sent])
     /\ uploads' = [f \in Files |-> IF f \in sent THEN [uploads[f] EXCEPT !.kind = "managed", !.token = NoToken]
                                 ELSE uploads[f]]
     /\ disk' = [f \in Files |-> IF f \in sent THEN "managed" ELSE disk[f]]
     /\ mail' = mail \cup {[bot |-> c.bot, text |-> c.text, files |-> sent]}
  /\ Reply(c, "done")
  /\ UNCHANGED <<page, store, bots, home, moves>>

\* The continuation of send.
SendEnds(c) ==
  /\ c.kind = "send"
  /\ \/ /\ c.phase = "done"
        /\ Saved(c.bot, EmptyDraft)
        /\ page' = IF page.selected # c.bot THEN page
                   ELSE [ShowAtOrigin(page, c.bot, EmptyDraft) EXCEPT !.drawer = {}]
     \/ /\ c.phase = "failed"
        /\ Saved(c.bot, c.kept)
        /\ page' = ShowAtOrigin(page, c.bot, c.kept)
  /\ Heard(c)
  /\ UNCHANGED <<uploads, disk, bots, mail, home, moves>>

-----------------------------------------------------------------------------
(* Dictation, as the Composer knows it: "idle", "recording", "transcribing".  *)

\* clearOriginAnchor shows the stored draft of the origin.
AnchorCleared(p, b) == ShowAtOrigin(p, b, store[b])

StartDictation ==
  LET b == page.selected IN
  /\ UserActs /\ Counted
  /\ page.voice = "idle"
  /\ Saved(b, page.draft)
  /\ page' = [page EXCEPT !.origin = b]
  /\ Ask(Call("listen", b, {}, {}, moves.count, EmptyDraft))
  /\ UNCHANGED <<uploads, disk, bots, mail, home>>

ListenEnds(c) ==
  /\ c.kind = "listen"
  /\ \/ /\ c.phase = "done"
        /\ page' = [page EXCEPT !.voice = "recording"]
     \/ /\ c.phase = "failed"
        /\ page' = [AnchorCleared(page, c.bot) EXCEPT !.origin = NoOrigin]
  /\ Heard(c)
  /\ UNCHANGED <<store, uploads, disk, bots, mail, home, moves>>

StopDictation ==
  /\ UserActs /\ Counted
  /\ page.voice = "recording" /\ page.origin # NoOrigin
  /\ page' = [page EXCEPT !.voice = "transcribing"]
  /\ Ask(Call("stop", page.origin, {}, {}, NoToken, EmptyDraft))
  /\ UNCHANGED <<store, uploads, disk, bots, mail, home>>

\* The transcript goes into the latest draft of the origin, and is sent at once if the
\* user wants that.
Transcribed(c, autoSend) ==
  LET w == NextWord
      latest == [store[c.bot] EXCEPT !.text = @ \cup {w}]
  IN
  /\ c.kind = "stop" /\ c.phase = "done" /\ w <= MaxWords
  /\ Saved(c.bot, latest) /\ Enters(w, c.bot)
  /\ page' = [ShowAtOrigin(page, c.bot, latest) EXCEPT
                !.voice = "idle", !.origin = IF autoSend THEN @ ELSE NoOrigin]
  /\ calls' = (calls \ {c}) \cup
       (IF autoSend THEN {Call("voice", c.bot, latest.text, latest.files, latest.token, latest)} ELSE {})
  /\ UNCHANGED <<uploads, disk, bots, mail, moves>>

\* Nothing was said, or the transcription failed.
NotTranscribed(c) ==
  /\ c.kind = "stop" /\ c.phase = "failed"
  /\ page' = [AnchorCleared(page, c.bot) EXCEPT !.voice = "idle", !.origin = NoOrigin]
  /\ Heard(c)
  /\ UNCHANGED <<store, uploads, disk, bots, mail, home, moves>>

VoiceEnds(c) ==
  LET left == [c.kept EXCEPT !.text = {}] IN
  /\ c.kind = "voice"
  /\ \/ /\ c.phase = "done"
        /\ Saved(c.bot, left)
        /\ page' = [ShowAtOrigin(page, c.bot, left) EXCEPT !.origin = NoOrigin]
     \/ /\ c.phase = "failed"
        /\ page' = [page EXCEPT !.origin = NoOrigin]
        /\ UNCHANGED store
  /\ Heard(c)
  /\ UNCHANGED <<uploads, disk, bots, mail, home, moves>>

CancelDictation ==
  /\ UserActs /\ Counted
  /\ page.voice = "recording" /\ page.origin # NoOrigin
  /\ page' = [AnchorCleared(page, page.origin) EXCEPT !.origin = NoOrigin]
  /\ Ask(Call("cancel", page.origin, {}, {}, NoToken, EmptyDraft))
  /\ UNCHANGED <<store, uploads, disk, bots, mail, home>>

CancelAnswered(c) ==
  /\ c.kind = "cancel" /\ c.phase \in {"done", "failed"}
  /\ page' = [page EXCEPT !.voice = "idle"]
  /\ Heard(c)
  /\ UNCHANGED <<store, uploads, disk, bots, mail, home, moves>>

-----------------------------------------------------------------------------
(* Deleting a Bot, a reload, and the daemon.                                  *)

\* deletePendingBot: the drafts of the Bot are taken from the window first.
BotDeleted(b) ==
  /\ UserActs /\ Counted
  /\ b # Fallback /\ Alive(b)
  /\ Ask(Call("delete", b, {}, {}, NoToken, store[b]))
  /\ Saved(b, EmptyDraft)
  /\ UNCHANGED <<page, uploads, disk, bots, mail, home>>

Owned(b) == {f \in Files : uploads[f].bot = b /\ uploads[f].kind \in {"staged", "managed"}}

\* deleteOwnedFiles removes the bytes and leaves the rows. The removals that follow are awaited.
DeletionRemovesFiles(c) ==
  /\ c.kind = "delete" /\ c.phase = "sent"
  /\ bots' = [bots EXCEPT ![c.bot] = "cleaning"]
  /\ disk' = [f \in Files |-> IF f \in Owned(c.bot) THEN "none" ELSE disk[f]]
  /\ Phase(c, "cleaning")
  /\ UNCHANGED <<page, store, uploads, mail, home, moves>>

DeletionCommits(c) ==
  /\ c.kind = "delete" /\ c.phase = "cleaning"
  /\ bots' = [bots EXCEPT ![c.bot] = "gone"]
  /\ uploads' = [f \in Files |-> IF f \in Owned(c.bot) THEN [uploads[f] EXCEPT !.kind = "gone"] ELSE uploads[f]]
  /\ mail' = {x \in mail : x.bot # c.bot}
  /\ Phase(c, "done")
  /\ UNCHANGED <<page, store, disk, home, moves>>

DeletionFails(c) ==
  /\ c.kind = "delete" /\ c.phase \in {"sent", "cleaning"}
  /\ bots' = [bots EXCEPT ![c.bot] = "failed"]
  /\ Phase(c, "failed")
  /\ UNCHANGED <<page, store, uploads, disk, mail, home, moves>>

\* The window selects another Bot, or puts back the drafts there were.
DeletionEnds(c) ==
  /\ c.kind = "delete"
  /\ \/ /\ c.phase = "done"
        /\ page' = IF page.selected = c.bot THEN Entered(page, Fallback) ELSE page
        /\ store' = IF page.selected = c.bot
                    THEN [store EXCEPT ![c.bot] = EmptyDraft, ![Fallback] = Entered(page, Fallback).draft]
                    ELSE store
     \/ /\ c.phase = "failed"
        /\ IF c.kept # EmptyDraft THEN Saved(c.bot, c.kept) ELSE UNCHANGED store
        /\ UNCHANGED page
  /\ Heard(c)
  /\ UNCHANGED <<uploads, disk, bots, mail, home, moves>>

\* The user reloads the page: no continuation runs, and the drafts are still there.
Reload ==
  /\ UserActs /\ Counted
  /\ page' = [Entered(page, page.selected) EXCEPT !.voice = "idle", !.origin = NoOrigin]
  /\ Saved(page.selected, Entered(page, page.selected).draft)
  /\ calls' = {}
  /\ UNCHANGED <<uploads, disk, bots, mail, home>>

\* The daemon restarts, and collects the staged files that are old by now.
Collected ==
  /\ calls = {} /\ moves.count < MaxMoves /\ Counted
  /\ \E fs \in SUBSET {f \in Files : uploads[f].kind = "staged"} : fs # {} /\ Dropped(fs)
  /\ UNCHANGED <<page, store, calls, bots, mail, home>>

\* The daemon runs one recording at a time.
Recording == page.voice # "idle" \/ \E c \in calls : c.kind = "listen" /\ c.phase = "done"

\* The other requests are answered by what ComposerInit leaves out: dictation, and a refusal.
OtherAnswers(c) ==
  /\ c.phase = "sent" /\ c.kind # "delete"
  /\ \/ c.kind \in {"stop", "cancel"} /\ Phase(c, "done")
     \/ c.kind = "listen" /\ ~Recording /\ Phase(c, "done")
     \/ Phase(c, "failed")
  /\ UNCHANGED <<page, store, uploads, disk, bots, mail, home, moves>>

\* A file that was not stored: the upload has no continuation but an error message.
StageFails(c) ==
  /\ c.kind = "upload" /\ c.phase = "failed"
  /\ Heard(c)
  /\ UNCHANGED <<page, store, uploads, disk, bots, mail, home, moves>>

ComposerNext ==
  \/ \E b \in Bots : Select(b) \/ BotDeleted(b)
  \/ RestoreAnswered \/ RestoreEnds
  \/ Type \/ RememberCursor \/ SendMessage \/ Reload \/ Collected
  \/ \E f \in Files : Stage(f) \/ RemoveUpload(f)
  \/ StartDictation \/ StopDictation \/ CancelDictation
  \/ \E c \in calls :
       \/ Staged(c) \/ StageEnds(c) \/ StageFails(c) \/ Unstaged(c) \/ RemoveEnds(c)
       \/ Accepted(c) \/ SendEnds(c) \/ OtherAnswers(c)
       \/ ListenEnds(c) \/ Transcribed(c, TRUE) \/ Transcribed(c, FALSE) \/ NotTranscribed(c)
       \/ VoiceEnds(c) \/ CancelAnswered(c)
       \/ DeletionRemovesFiles(c) \/ DeletionCommits(c) \/ DeletionFails(c) \/ DeletionEnds(c)

ComposerSpec == ComposerInit /\ [][ComposerNext]_composerVars

-----------------------------------------------------------------------------
(* Properties. *)

DraftType == [text : SUBSET (1..MaxWords), files : SUBSET Files, token : 0..MaxTokens]

ComposerTypeOK ==
  /\ store \in [Bots -> DraftType]
  /\ page.draft \in DraftType /\ page.selected \in Bots /\ page.drawer \subseteq Files
  /\ disk \in [Files -> {"none", "staged", "managed"}]

\* Words and files stay in the conversation they were entered in: those of b.
OfBot(b, text, files) ==
  /\ \A w \in text : home[w] = b
  /\ \A f \in files : uploads[f].bot = b

\* "A transcript or attachment must never move to whichever Bot happens to be selected
\* later" (docs/workspace-redesign.md:197): whatever order uploads, removals, sends,
\* recordings, deletions and restores end in, and wherever the user went meanwhile.
StaysHome ==
  /\ ComposerTypeOK
  /\ \A b \in Bots : OfBot(b, store[b].text, store[b].files)
  /\ OfBot(page.selected, page.draft.text, page.draft.files)
  /\ OfBot(page.selected, {}, page.drawer)
  /\ \A x \in mail : OfBot(x.bot, x.text, x.files)

\* The file of a message is there for as long as its Bot is, whatever removals were under
\* way when the message took it along, unless a deletion began to clean up after that Bot.
SentFilesKept ==
  \A x \in mail : bots[x.bot] = "here" =>
     \A f \in x.files : uploads[f].kind = "managed" /\ disk[f] = "managed"

\* Words and files stay with the conversation they were entered in, and what was sent is kept.
DraftsAreKept == StaysHome /\ SentFilesKept

\* "Escape cancels recording" (docs/workspace-redesign.md:221): a recording can be cancelled,
\* for which the Composer needs its origin, unless it is being cancelled already.
EscapeCancels ==
  page.voice = "recording" => page.origin # NoOrigin \/ \E c \in calls : c.kind = "cancel"
=============================================================================
