------------------------------ MODULE Composer ------------------------------
(* What is typed and attached on the chat page on its way to the server: the *)
(* box with its panel of templates and its files, the upload that comes      *)
(* before the question, and the texts that the server keeps until the        *)
(* question takes them.                                                      *)
EXTENDS Integers, Sequences, FiniteSets, SequencesExt

CONSTANTS
  Pick,    \* files to pick, by kind
  KindOf,    \* KindOf[f]: "format" or "large" is refused by the page; a name that
             \* ends in a dot ("dot") only by the server; one "big" file is let
             \* through by both, two of them are too large together; or "good"
  MaxFiles,  \* files of one question, for the page and for the server
  MaxSends,  \* bound: questions sent
  MaxTyped   \* bound: changes of the box

ASSUME ComposerAssumption ==
  /\ KindOf \in [Pick -> {"good", "big", "dot", "format", "large"}]
  /\ {MaxFiles, MaxSends, MaxTyped} \subseteq Nat

VARIABLES
  box,    \* the text, whether the panel is open, the files
  sends,  \* sends[s]: a question clicked, with what it took along
  kept,   \* the server's texts of files: <<the send, the place of the file>>
  view,   \* whether an answer streams, and which ways to lose a draft happened
  typed   \* changes of the box so far

composerVars == <<box, sends, kept, view, typed>>

\* A text: none, one that begins with the slash, a template, or a question.
Text == {"", "/", "template", "question"}
Send == 1 .. MaxSends
NoSending == [pc |-> "none"]
-----------------------------------------------------------------------------
(* ChatInput.vue                                                            *)

Change(new) == typed < MaxTyped /\ typed' = typed + 1 /\ box' = new /\ UNCHANGED <<sends, kept, view>>

\* The panel opens at a slash in an empty box and closes when the slash goes;
\* the box is disabled while an answer streams.
Type(t) ==
  /\ ~view.streaming /\ t # box.text
  /\ Change([box EXCEPT !.text = t, !.panel = (t = "/") /\ (box.panel \/ box.text = "")])

\* Escape, or the focus is lost.
ClosePanel == box.panel /\ Change([box EXCEPT !.panel = FALSE])

\* Enter with the panel open takes the template and sends nothing.
ApplyCommand == box.panel /\ Change([box EXCEPT !.text = "template", !.panel = FALSE])

\* A prompt, a suggestion or a quotation, whatever is going on.
Fill == box.text # "question" /\ Change([box EXCEPT !.text = "question", !.panel = FALSE])

\* The page looks at each file on its own; no extension counts as txt.
PassesPage(f) == KindOf[f] \in {"good", "big", "dot"}

\* Of the files picked at once each joins the box unless it is refused; with the
\* first that is too many the rest are left.
Joined(files, f) == IF PassesPage(f) /\ Len(files) < MaxFiles THEN Append(files, f) ELSE files

OnFilePicked(files) == files # box.files /\ Change([box EXCEPT !.files = files])

RemoveFile(i) == i \in DOMAIN box.files /\ Change([box EXCEPT !.files = RemoveAt(box.files, i)])

-----------------------------------------------------------------------------
(* ChatView.vue: handleSend                                                 *)

NextSend == CHOOSE s \in Send : sends[s] = NoSending
HasSend == \E s \in Send : sends[s] = NoSending

\* The questions whose files are on their way: nothing keeps the next one from
\* being sent meanwhile.
Uploading == {s \in Send : sends[s].pc \in {"upload", "ready"}}
Sending(pc, files, text) ==
  sends' = [sends EXCEPT ![NextSend] = [pc |-> pc, files |-> files, text |-> text, beside |-> Uploading, got |-> {}]]
Losing(loss, if) == view.losses \union IF if THEN {loss} ELSE {}

\* The button, or Enter with the panel closed.  The box keeps the text while
\* the files are uploaded, but not the files.
HandleSend ==
  /\ box.text # "" /\ ~view.streaming /\ ~box.panel /\ HasSend
  /\ IF box.files = <<>>
     THEN /\ Sending("asking", <<>>, box.text) /\ view' = [view EXCEPT !.streaming = TRUE]
          /\ box' = [box EXCEPT !.text = ""]
     ELSE /\ Sending("upload", box.files, box.text) /\ UNCHANGED view
          /\ box' = [box EXCEPT !.files = <<>>]
  /\ UNCHANGED <<kept, typed>>

\* A question that is suggested, or an explanation of a passage: sent without
\* the files of the box, whose text goes.
SendDirectly ==
  /\ ~view.streaming /\ HasSend
  /\ box' = [box EXCEPT !.text = ""]
  /\ Sending("asking", <<>>, "question")
  /\ view' = [streaming |-> TRUE, losses |-> Losing("draft", box.text # "")]
  /\ UNCHANGED <<kept, typed>>

Regenerate == /\ ~view.streaming /\ view' = [streaming |-> TRUE, losses |-> Losing("again", TRUE)]
              /\ UNCHANGED <<box, sends, kept, typed>>
StreamEnds == /\ view.streaming /\ \A s \in Send : sends[s].pc # "asking"
              /\ view' = [view EXCEPT !.streaming = FALSE] /\ UNCHANGED <<box, sends, kept, typed>>

\* The texts have come back: sendQuestion does nothing while an answer streams,
\* and handleSend clears the box all the same.
PostUploaded(s) ==
  /\ sends[s].pc = "ready"
  /\ box' = [box EXCEPT !.text = ""]
  /\ sends' = [sends EXCEPT ![s].pc = IF view.streaming THEN "dropped" ELSE "asking"]
  /\ view' = [streaming |-> TRUE, losses |-> Losing("draft", box.text # sends[s].text)]
  /\ UNCHANGED <<kept, typed>>

-----------------------------------------------------------------------------
(* ChatService: createAttachments and takeAttachments                       *)

\* express.json: both files are in one body, in base64, of at most 12 MB.
BodyTooLarge(files) == Cardinality({i \in DOMAIN files : KindOf[files[i]] = "big"}) > 1

\* The loop reads one file after the other, up to the first that it refuses.
Extracted(files) == {i \in DOMAIN files : \A j \in 1 .. i : KindOf[files[j]] \in {"good", "big"}}

CreateAttachments(s) ==
  /\ sends[s].pc = "upload"
  /\ LET files == sends[s].files
         taken == IF Len(files) > MaxFiles \/ BodyTooLarge(files) THEN {} ELSE Extracted(files)
     IN /\ kept' = kept \union {<<s, i>> : i \in taken}
        /\ sends' = [sends EXCEPT ![s].pc = IF taken = DOMAIN files THEN "ready" ELSE "refused"]
  /\ UNCHANGED <<box, view, typed>>

\* More than twenty uploads a minute from one address.
UploadThrottled(s) == /\ sends[s].pc = "upload" /\ sends' = [sends EXCEPT ![s].pc = "refused"]
                      /\ UNCHANGED <<box, kept, view, typed>>

\* The upload, or the reading of one of the files, fails: those before it stay.
\* The question is not sent; its mutant sends it anyhow.
CreateFailsOpen(s) ==
  /\ sends[s].pc = "upload" /\ sends' = [sends EXCEPT ![s].pc = "ready"]
  /\ UNCHANGED <<box, kept, view, typed>>
CreateFails(s) ==
  /\ sends[s].pc = "upload"
  /\ \E n \in 0 .. Len(sends[s].files) - 1 : kept' = kept \union {<<s, i>> : i \in 1 .. n}
  /\ sends' = [sends EXCEPT ![s].pc = "failed"]
  /\ UNCHANGED <<box, view, typed>>

\* A question takes its texts when it is past the gate and the quota, which
\* refuse it before.
Take(s) ==
  /\ sends[s].pc = "asking"
  /\ LET got == {i \in DOMAIN sends[s].files : <<s, i>> \in kept} IN
       /\ sends' = [sends EXCEPT ![s].pc = "asked", ![s].got = got]
       /\ kept' = kept \ {<<s, i>> : i \in got}
  /\ UNCHANGED <<box, view, typed>>

Denied(s) == /\ sends[s].pc = "asking" /\ sends' = [sends EXCEPT ![s].pc = "denied"]
             /\ UNCHANGED <<box, kept, view, typed>>

\* Ten minutes pass, or the server is started anew.
LoseTexts ==
  /\ kept # {} /\ kept' = {} /\ view' = [view EXCEPT !.losses = @ \union {"expired"}]
  /\ UNCHANGED <<box, sends, typed>>

-----------------------------------------------------------------------------
ComposerInit ==
  /\ box = [text |-> "", panel |-> FALSE, files |-> <<>>]
  /\ sends = [s \in Send |-> NoSending] /\ kept = {}
  /\ view = [streaming |-> FALSE, losses |-> {}] /\ typed = 0

ComposerNext ==
  \/ \E t \in Text : Type(t)
  \/ ClosePanel \/ ApplyCommand \/ Fill \/ HandleSend \/ SendDirectly \/ Regenerate \/ StreamEnds \/ LoseTexts
  \/ \E f, g \in Pick : OnFilePicked(Joined(box.files, f)) \/ OnFilePicked(Joined(Joined(box.files, f), g))
  \/ \E i \in 1 .. MaxFiles : RemoveFile(i)
  \/ \E s \in Send : CreateAttachments(s) \/ UploadThrottled(s) \/ CreateFails(s) \/ PostUploaded(s) \/ Take(s) \/ Denied(s)

ComposerSpec == ComposerInit /\ [][ComposerNext]_composerVars

\* A question is asked with every file it was sent with, unless the server has
\* let their texts go: not with a part of them where the upload was refused,
\* throttled or broke off; what is uploaded is not left unasked unless
\* something else was sent meanwhile; and the texts that lie on the server are
\* those of questions that were not asked yet or not at all (ChatView.vue
\* handleSend, chat.service.ts createAttachments, takeAttachments).
AttachmentsArrive ==
  \A s \in Send :
    /\ sends[s].pc = "asked" => sends[s].got = DOMAIN sends[s].files \/ "expired" \in view.losses
    /\ sends[s].pc = "dropped" =>
         \/ "again" \in view.losses
         \/ \E r \in Send : sends[r] # NoSending /\ (s \in sends[r].beside \/ r \in sends[s].beside)
    /\ s \in {text[1] : text \in kept} =>
         sends[s].pc \in {"ready", "asking", "dropped", "refused", "failed", "denied"}
=============================================================================
