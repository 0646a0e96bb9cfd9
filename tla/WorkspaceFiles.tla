---------------------------- MODULE WorkspaceFiles ----------------------------
(***************************************************************************)
(* A file that the edit and the write tool of several runs change at the     *)
(* same time: each does its part in the queue of the path                    *)
(* (withFileMutationQueue), a write replaces the text in two steps, and the  *)
(* run may be cancelled, a write fail or the program stop at any of them.    *)
(* A text is a sequence of snippets.                                         *)
(***************************************************************************)
EXTENDS Naturals, Sequences

CONSTANTS Editor,       \* runs that use the tools
          Snippet,
          NoEditor,
          MaxText, MaxChanges  \* bounds: a text that is appended to, changes that are acknowledged

ASSUME FilesConstants == NoEditor \notin Editor /\ "missing" \notin Snippet

VARIABLES
  content,   \* of the file, or Missing
  inQueue,   \* who has the mutex of the path
  change,    \* of each editor: what it was asked for, while it is at it
  place,     \* of each editor
  working,   \* of each editor: the text it read and changed
  owed,      \* history: the text by the acknowledged changes, in their order
  changes,   \* history: their number
  torn       \* history: a write stopped in its middle, and none replaced the file since

fileVars == <<content, inQueue, change, place, working, owed, changes, torn>>

Missing == <<"missing">>
Absent(text) == text = Missing

Change ==
  {c \in [kind : {"edit"}, old : Snippet, new : Snippet, all : BOOLEAN] : c.old # c.new}
    \cup [kind : {"write", "append"}, new : Snippet]
NoChange == [kind |-> "none"]

FilesInit ==
  /\ content = Missing /\ inQueue = NoEditor
  /\ change = [e \in Editor |-> NoChange]
  /\ place = [e \in Editor |-> "idle"] /\ working = [e \in Editor |-> <<>>]
  /\ owed = Missing /\ changes = 0 /\ torn = FALSE

To(e, p) == place' = [place EXCEPT ![e] = p]
Same == UNCHANGED <<owed, changes, torn>>
Over(e) ==
  /\ To(e, "idle")
  /\ change' = [change EXCEPT ![e] = NoChange] /\ working' = [working EXCEPT ![e] = <<>>]

Found(text, c) == {i \in DOMAIN text : text[i] = c.old}

\* What an edit refuses: a file that is not there, and a text that is not found, or not once.
Refuses(text, c) == Absent(text) \/ Found(text, c) = {} \/ (~c.all /\ \E i, j \in Found(text, c) : i # j)

\* The text after a change.
Applied(text, c) ==
  CASE c.kind = "edit" -> [i \in DOMAIN text |-> IF i \in Found(text, c) THEN c.new ELSE text[i]]
    [] c.kind = "write" -> <<c.new>>
    [] c.kind = "append" -> (IF Absent(text) THEN <<>> ELSE text) \o <<c.new>>

CallTool(e) ==
  /\ place[e] = "idle" /\ changes < MaxChanges
  /\ \E c \in Change : change' = [change EXCEPT ![e] = c]
  /\ To(e, "called") /\ Same /\ UNCHANGED <<content, inQueue, working>>

\* Faulty variant: every call has a mutex of its own.
EnterAlways(e) == UNCHANGED inQueue

Enter(e) == inQueue = NoEditor /\ inQueue' = e
Leave == inQueue' = NoEditor

Begin(e) ==
  /\ place[e] = "called" /\ Enter(e)
  /\ To(e, IF change[e].kind = "edit" THEN "reading" ELSE "writing")
  /\ Same /\ UNCHANGED <<content, change, working>>

\* The run is cancelled (the tools look when they are called, when their turn has
\* come and after a read), or the file cannot be opened.
GiveUp(e) ==
  /\ \/ place[e] = "called" /\ UNCHANGED inQueue
     \/ place[e] \in {"reading", "changing", "writing"} /\ Leave
  /\ Over(e) /\ Same /\ UNCHANGED content

ReadFile(e) ==
  /\ place[e] = "reading"
  /\ working' = [working EXCEPT ![e] = content] /\ To(e, "changing")
  /\ Same /\ UNCHANGED <<content, inQueue, change>>

\* editTool.Execute with what it read,
RefuseEdit(e) ==
  /\ place[e] = "changing" /\ Refuses(working[e], change[e])
  /\ Leave /\ Over(e) /\ Same /\ UNCHANGED content

\* and os.WriteFile: the file is emptied, then written.
Empty(e) ==
  /\ \/ place[e] = "changing" /\ ~Refuses(working[e], change[e])
     \/ place[e] = "writing" /\ change[e].kind = "write"
  /\ content' = <<>> /\ To(e, "emptied")
  /\ Same /\ UNCHANGED <<inQueue, change, working>>

Acknowledge(e) ==
  /\ Leave /\ Over(e)
  /\ owed' = (IF change[e].kind = "edit" /\ Refuses(owed, change[e]) THEN owed ELSE Applied(owed, change[e]))
  /\ changes' = changes + 1
  /\ torn' = (torn /\ change[e].kind # "write")

Fill(e) ==
  /\ place[e] = "emptied"
  /\ content' = Applied(working[e], change[e])
  /\ Acknowledge(e)

AppendText(e) ==
  /\ place[e] = "writing" /\ change[e].kind = "append"
  /\ (IF Absent(content) THEN 0 ELSE Len(content)) < MaxText
  /\ content' = Applied(content, change[e])
  /\ Acknowledge(e)

\* A part is written, or nothing.
WriteFails(e) ==
  /\ torn' = TRUE
  /\ \/ /\ place[e] = "emptied"
        /\ \E n \in 0..Len(Applied(working[e], change[e])) :
             content' = SubSeq(Applied(working[e], change[e]), 1, n)
     \/ /\ place[e] = "writing" /\ change[e].kind = "append"
        /\ content' = (IF Absent(content) THEN <<>> ELSE content)
  /\ Leave /\ Over(e) /\ UNCHANGED <<owed, changes>>

Stop ==
  /\ \E e \in Editor : place[e] # "idle"
  /\ torn' = (torn \/ \E e \in Editor : place[e] = "emptied")
  /\ place' = [e \in Editor |-> "idle"] /\ Leave
  /\ change' = [e \in Editor |-> NoChange] /\ working' = [e \in Editor |-> <<>>]
  /\ UNCHANGED <<content, owed, changes>>

FilesNext ==
  \/ \E e \in Editor :
       \/ CallTool(e) \/ Begin(e) \/ GiveUp(e) \/ ReadFile(e) \/ RefuseEdit(e)
       \/ Empty(e) \/ Fill(e) \/ AppendText(e) \/ WriteFails(e)
  \/ Stop

FilesSpec == FilesInit /\ [][FilesNext]_fileVars

-----------------------------------------------------------------------------
FilesTypeOK ==
  /\ Absent(content) \/ content \in Seq(Snippet)
  /\ inQueue \in Editor \cup {NoEditor} /\ changes \in Nat
  /\ place \in [Editor -> {"idle", "called", "reading", "changing", "writing", "emptied"}]

\* Between two changes the file has what the acknowledged ones made of it, one
\* after the other, unless a write stopped in its middle: none is lost to
\* another that had read the file before, and none that failed is in it.
ChangesInTurn ==
  ~torn /\ (\A e \in Editor : place[e] # "emptied") => content = owed

\* edit.go and write.go: the types, and no change undone under withFileMutationQueue.
FilesKept == FilesTypeOK /\ ChangesInTurn
===============================================================================
