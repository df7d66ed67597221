--------------------------- MODULE DeliveryProofs ---------------------------
(***************************************************************************)
(* Proofs about Delivery, for any set of transcripts and any number of     *)
(* deliveries. What is promised when deliver has returned needs what holds *)
(* on the way: which tool runs at each position, whose text the selection  *)
(* is, and how much each tool has inserted by then.                        *)
(***************************************************************************)
EXTENDS Delivery, TLAPS

-----------------------------------------------------------------------------
(* The inductive invariant *)

\* The positions between starting a clipboard tool and retaining it, those after,
\* and the outcomes that claim the clipboard.
Copying == {"state", "verify", "final"}
Kept == {"copied", "target", "paste", "pasting", "fallback"}
Claims == {"Clipboard", "ClipboardFallback", "Pasted"}

\* A tool runs, or has ended unseen, only where deliver waits for it.
ToolInv ==
  /\ cand # "none" => pc \in Copying
  /\ tool # "none" => pc \in {"typing", "pasting"}
  /\ pc = "typing" => tool # "acted"

\* The tool that holds the selection put its own text there.
SelectionInv ==
  /\ sel.by = "cand" => cand = "claimed" /\ sel.text = text
  /\ sel.by = "owner" => sel.text = kept

\* Unless the copy began with the text in place already, or with an owner that had
\* yet to claim, the verification cannot have been answered by the previous owner:
\* what it saw survives the previous owner's end.
KeptInv ==
  /\ pc \in Copying /\ ~stale => owner # "live" /\ (sel.by = "owner" => kept # text)
  /\ pc = "final" /\ cand # "failed" /\ ~foreign /\ ~stale => sel.text = text
  /\ pc \in Kept => kept = text /\ (~foreign /\ ~stale => sel.text = text)
  /\ pc = "returned" /\ outcome \in Claims =>
       kept = text /\ (~foreign /\ ~stale => sel.text = text)

\* What the tools have inserted so far, by position.
InsertInv ==
  /\ typed # "none" => method = "type"
  /\ pasted # <<>> => method = "paste"
  /\ pc \in {"type", "typing"} => method = "type"
  /\ pc \in {"target", "paste", "pasting", "fallback"} => method = "paste"
  /\ pc = "copied" => method # "paste"
  /\ pc = "typing" /\ tool = "ok" => typed = "all"
  /\ pc \notin {"pasting", "returned"} => pasted = <<>>
  /\ pc = "pasting" => Len(pasted) <= 1 /\ (tool = "live" => pasted = <<>>)
  /\ pc = "pasting" /\ tool \in {"acted", "ok"} /\ ~foreign /\ ~stale => pasted = <<text>>

DeliveryInv ==
  TypeOK /\ ToolInv /\ SelectionInv /\ KeptInv /\ InsertInv /\ InsertedOnce

-----------------------------------------------------------------------------
(* Its proof *)

USE TextsAssumption DEF vars, desktop, request, history

\* The selection is a pair of a text and a holder.
Selections == [text : Texts \cup {Nothing, Other},
               by : {"none", "owner", "cand", "app", "manager"}]

\* The values the selection takes.
LEMMA SelectionTypes ==
  /\ \A s \in Selections : s.text \in Texts \cup {Nothing, Other}
  /\ \A s \in Selections : s.by \in {"none", "owner", "cand", "app", "manager"}
  /\ \A s \in Selections : [s EXCEPT !.by = "owner"].text = s.text
  /\ \A s \in Selections : [s EXCEPT !.by = "owner"].by = "owner"
  /\ \A s \in Selections : [s EXCEPT !.by = "owner"] \in Selections
  /\ \A s \in Selections : [s EXCEPT !.by = "manager"].text = s.text
  /\ \A s \in Selections : [s EXCEPT !.by = "manager"].by = "manager"
  /\ \A s \in Selections : [s EXCEPT !.by = "manager"] \in Selections
  /\ \A t \in Texts : [text |-> t, by |-> "cand"] \in Selections
  /\ \A t \in Texts : [text |-> t, by |-> "owner"] \in Selections
  /\ [text |-> Nothing, by |-> "none"] \in Selections
  /\ [text |-> Other, by |-> "app"] \in Selections
  BY DEF Selections

\* A first paste.
LEMMA FirstPaste ==
  ASSUME NEW x
  PROVE  Append(<<>>, x) = <<x>> /\ Len(<<x>>) = 1 /\ Len(<<>>) = 0
  OBVIOUS

\* Every step keeps the types.
LEMMA TypeStep ==
  ASSUME TypeOK, [Next]_vars
  PROVE  TypeOK'
<1>0. sel \in Selections
  BY DEF TypeOK, Selections
<1> USE <1>0, SelectionTypes DEF TypeOK, Running, Outcomes
<1>1. CASE Type
  BY <1>1 DEF Type, StartTool, Goto
<1>2. CASE TypeEnds
  BY <1>2 DEF TypeEnds, Return
<1>3. CASE CopyFails
  BY <1>3 DEF CopyFails, Return
<1>4. CASE StartOwner
  <2>1. foreign' = FALSE /\ stale' = (sel.text = text \/ owner = "live")
    BY <1>4 DEF StartOwner
  <2>2. foreign' \in BOOLEAN /\ stale' \in BOOLEAN
    BY <2>1
  <2>3. /\ pc' = "state" /\ cand' = "live"
        /\ UNCHANGED <<desktop, request, owner, sel, state, tool, outcome, typed, pasted>>
    BY <1>4 DEF StartOwner
  <2> QED
    BY <2>2, <2>3
<1>5. CASE OwnerState
  BY <1>5 DEF OwnerState, Abandon, Selection, Selections
<1>6. CASE Verify
  BY <1>6 DEF Verify, Goto, Abandon, Selection, Selections
<1>7. CASE Retain
  BY <1>7 DEF Retain, Copied, Selections
<1>8. CASE FinalState
  BY <1>8 DEF FinalState, Abandon, Selection, Selections
<1>9. CASE CopyReturns
  BY <1>9 DEF CopyReturns, Return
<1>10. CASE Target
  BY <1>10 DEF Target, Goto, Return
<1>11. CASE Paste
  BY <1>11 DEF Paste, StartTool, Goto
<1>12. CASE PasteEnds
  BY <1>12 DEF PasteEnds, Return
<1>13. CASE PasteMissing
  BY <1>13 DEF PasteMissing, Return
<1>14. CASE Over
  BY <1>14 DEF Over
<1>15. CASE Claim
  BY <1>15 DEF Claim, Outside, Selections
<1>16. CASE TakeSelection
  <2>1. sel' \in Selections
    BY <1>16 DEF TakeSelection
  <2>2. foreign' \in BOOLEAN
    BY <1>16 DEF TakeSelection
  <2>3. UNCHANGED <<desktop, request, pc, state, outcome, owner, cand, tool, typed, pasted, stale>>
    BY <1>16 DEF TakeSelection, Outside
  <2> QED
    BY <2>1, <2>2, <2>3 DEF Selections
<1>17. CASE CandExits
  BY <1>17 DEF CandExits, Outside, Selection, Selections
<1>18. CASE OwnerExits
  BY <1>18 DEF OwnerExits, Outside, Selection, Selections
<1>19. CASE ToolActs
  BY <1>19 DEF ToolActs, Outside
<1>20. CASE ToolExits
  BY <1>20 DEF ToolExits, Outside
<1>21. ASSUME NEW t \in Texts, NEW m \in {"clipboard", "paste", "type"}, Deliver(t, m)
      PROVE  TypeOK'
  <2>1. count' \in 0..MaxDeliveries
    BY <1>21 DEF Deliver
  <2>2. foreign' \in BOOLEAN /\ stale' \in BOOLEAN
    BY <1>21 DEF Deliver
  <2>3. pasted' \in Seq(Texts \cup {Nothing, Other})
    BY <1>21 DEF Deliver
  <2>4. /\ text' \in Texts /\ method' \in {"clipboard", "paste", "type"}
        /\ pc' \in {"type", "copy"} /\ outcome' = "none" /\ state' = "none" /\ typed' = "none"
        /\ UNCHANGED <<desktop, owner, cand, sel, tool>>
    BY <1>21 DEF Deliver
  <2> QED
    BY <2>1, <2>2, <2>3, <2>4
<1>22. CASE UNCHANGED vars
  BY <1>22
<1> QED
  BY <1>1, <1>2, <1>3, <1>4, <1>5, <1>6, <1>7, <1>8, <1>9, <1>10, <1>11, <1>12,
      <1>13, <1>14, <1>15, <1>16, <1>17, <1>18, <1>19, <1>20, <1>21, <1>22 DEF Next,
      DeliverStep

\* Every step keeps each tool where deliver waits for it.
LEMMA ToolStep ==
  ASSUME TypeOK, ToolInv, [Next]_vars
  PROVE  ToolInv'
<1> USE DEF ToolInv, Copying
<1>1. CASE Type
  BY <1>1 DEF Type, StartTool, Goto
<1>2. CASE TypeEnds
  BY <1>2 DEF TypeEnds, Return
<1>3. CASE CopyFails
  BY <1>3 DEF CopyFails, Return
<1>4. CASE StartOwner
  BY <1>4 DEF StartOwner
<1>5. CASE OwnerState
  BY <1>5 DEF OwnerState, Abandon, Selection
<1>6. CASE Verify
  BY <1>6 DEF Verify, Goto, Abandon, Selection
<1>7. CASE Retain
  BY <1>7 DEF Retain, Copied
<1>8. CASE FinalState
  BY <1>8 DEF FinalState, Abandon, Selection
<1>9. CASE CopyReturns
  BY <1>9 DEF CopyReturns, Return
<1>10. CASE Target
  BY <1>10 DEF Target, Goto, Return
<1>11. CASE Paste
  BY <1>11 DEF Paste, StartTool, Goto
<1>12. CASE PasteEnds
  BY <1>12 DEF PasteEnds, Return
<1>13. CASE PasteMissing
  BY <1>13 DEF PasteMissing, Return
<1>14. CASE Over
  BY <1>14 DEF Over
<1>15. CASE Claim
  BY <1>15 DEF Claim, Outside
<1>16. CASE TakeSelection
  BY <1>16 DEF TakeSelection, Outside
<1>17. CASE CandExits
  BY <1>17 DEF CandExits, Outside, Selection, Running
<1>18. CASE OwnerExits
  BY <1>18 DEF OwnerExits, Outside, Selection
<1>19. CASE ToolActs
  BY <1>19 DEF ToolActs, Outside
<1>20. CASE ToolExits
  BY <1>20 DEF ToolExits, Outside
<1>21. ASSUME NEW t \in Texts, NEW m \in {"clipboard", "paste", "type"}, Deliver(t, m)
      PROVE  ToolInv'
  BY <1>21 DEF Deliver
<1>22. CASE UNCHANGED vars
  BY <1>22
<1> QED
  BY <1>1, <1>2, <1>3, <1>4, <1>5, <1>6, <1>7, <1>8, <1>9, <1>10, <1>11, <1>12,
      <1>13, <1>14, <1>15, <1>16, <1>17, <1>18, <1>19, <1>20, <1>21, <1>22 DEF Next,
      DeliverStep

\* Every step keeps the holder of the selection and its text together.
LEMMA SelectionStep ==
  ASSUME TypeOK, ToolInv, SelectionInv, [Next]_vars
  PROVE  SelectionInv'
<1>0. sel \in Selections
  BY DEF TypeOK, Selections
<1> USE <1>0, SelectionTypes DEF SelectionInv
<1>1. CASE Type
  BY <1>1 DEF Type, StartTool, Goto
<1>2. CASE TypeEnds
  BY <1>2 DEF TypeEnds, Return
<1>3. CASE CopyFails
  BY <1>3 DEF CopyFails, Return
<1>4. CASE StartOwner
  BY <1>4 DEF StartOwner, ToolInv, Copying
<1>5. CASE OwnerState
  BY <1>5 DEF OwnerState, Abandon, Selection
<1>6. CASE Verify
  BY <1>6 DEF Verify, Goto, Abandon, Selection
<1>7. CASE Retain
  BY <1>7 DEF Retain, Copied
<1>8. CASE FinalState
  BY <1>8 DEF FinalState, Abandon, Selection
<1>9. CASE CopyReturns
  BY <1>9 DEF CopyReturns, Return
<1>10. CASE Target
  BY <1>10 DEF Target, Goto, Return
<1>11. CASE Paste
  BY <1>11 DEF Paste, StartTool, Goto
<1>12. CASE PasteEnds
  BY <1>12 DEF PasteEnds, Return
<1>13. CASE PasteMissing
  BY <1>13 DEF PasteMissing, Return
<1>14. CASE Over
  BY <1>14 DEF Over
<1>15. CASE Claim
  BY <1>15 DEF Claim, Outside
<1>16. CASE TakeSelection
  BY <1>16 DEF TakeSelection, Outside
<1>17. CASE CandExits
  BY <1>17 DEF CandExits, Outside, Selection, Running
<1>18. CASE OwnerExits
  BY <1>18 DEF OwnerExits, Outside, Selection
<1>19. CASE ToolActs
  BY <1>19 DEF ToolActs, Outside
<1>20. CASE ToolExits
  BY <1>20 DEF ToolExits, Outside
<1>21. ASSUME NEW t \in Texts, NEW m \in {"clipboard", "paste", "type"}, Deliver(t, m)
      PROVE  SelectionInv'
  BY <1>21 DEF Deliver, ToolInv, Copying
<1>22. CASE UNCHANGED vars
  BY <1>22
<1> QED
  BY <1>1, <1>2, <1>3, <1>4, <1>5, <1>6, <1>7, <1>8, <1>9, <1>10, <1>11, <1>12,
      <1>13, <1>14, <1>15, <1>16, <1>17, <1>18, <1>19, <1>20, <1>21, <1>22 DEF Next,
      DeliverStep

\* Every step keeps the transcript on the clipboard once it has been verified.
LEMMA KeptStep ==
  ASSUME TypeOK, ToolInv, SelectionInv, KeptInv, [Next]_vars
  PROVE  KeptInv'
<1>0. sel \in Selections
  BY DEF TypeOK, Selections
<1> USE <1>0, SelectionTypes DEF KeptInv, SelectionInv, ToolInv, Copying, Kept, Claims
<1>1. CASE Type
  BY <1>1 DEF Type, StartTool, Goto, TypeOK
<1>2. CASE TypeEnds
  BY <1>2 DEF TypeEnds, Return, TypeOK
<1>3. CASE CopyFails
  BY <1>3 DEF CopyFails, Return, TypeOK
<1>4. CASE StartOwner
  BY <1>4 DEF StartOwner, TypeOK
<1>5. CASE OwnerState
  BY <1>5 DEF OwnerState, Abandon, Selection, TypeOK
<1>6. CASE Verify
  BY <1>6 DEF Verify, Goto, Abandon, Selection, TypeOK, Running
<1>7. CASE Retain
  BY <1>7 DEF Retain, Copied, TypeOK, Running
<1>8. CASE FinalState
  BY <1>8 DEF FinalState, Abandon, Selection, TypeOK
<1>9. CASE CopyReturns
  BY <1>9 DEF CopyReturns, Return, TypeOK
<1>10. CASE Target
  BY <1>10 DEF Target, Goto, Return, TypeOK
<1>11. CASE Paste
  BY <1>11 DEF Paste, StartTool, Goto, TypeOK
<1>12. CASE PasteEnds
  BY <1>12 DEF PasteEnds, Return, TypeOK
<1>13. CASE PasteMissing
  BY <1>13 DEF PasteMissing, Return, TypeOK
<1>14. CASE Over
  BY <1>14 DEF Over, TypeOK
<1>15. CASE Claim
  BY <1>15 DEF Claim, Outside, TypeOK
<1>16. CASE TakeSelection
  BY <1>16 DEF TakeSelection, Outside, TypeOK
<1>17. CASE CandExits
  BY <1>17 DEF CandExits, Outside, Selection, TypeOK, Running
<1>18. CASE OwnerExits
  BY <1>18 DEF OwnerExits, Outside, Selection, TypeOK, Running
<1>19. CASE ToolActs
  BY <1>19 DEF ToolActs, Outside, TypeOK
<1>20. CASE ToolExits
  BY <1>20 DEF ToolExits, Outside, TypeOK
<1>21. ASSUME NEW t \in Texts, NEW m \in {"clipboard", "paste", "type"}, Deliver(t, m)
      PROVE  KeptInv'
  BY <1>21 DEF Deliver, TypeOK
<1>22. CASE UNCHANGED vars
  BY <1>22 DEF TypeOK
<1> QED
  BY <1>1, <1>2, <1>3, <1>4, <1>5, <1>6, <1>7, <1>8, <1>9, <1>10, <1>11, <1>12,
      <1>13, <1>14, <1>15, <1>16, <1>17, <1>18, <1>19, <1>20, <1>21, <1>22 DEF Next,
      DeliverStep

\* Every step keeps count of what was inserted.
LEMMA InsertStep ==
  ASSUME TypeOK, ToolInv, KeptInv, InsertInv, InsertedOnce, [Next]_vars
  PROVE  InsertInv' /\ InsertedOnce'
<1> USE FirstPaste DEF InsertInv, InsertedOnce, Reported, ToolInv
<1>1. CASE Type
  BY <1>1 DEF Type, StartTool, Goto, TypeOK
<1>2. CASE TypeEnds
  BY <1>2 DEF TypeEnds, Return, TypeOK
<1>3. CASE CopyFails
  BY <1>3 DEF CopyFails, Return, TypeOK
<1>4. CASE StartOwner
  BY <1>4 DEF StartOwner, TypeOK
<1>5. CASE OwnerState
  BY <1>5 DEF OwnerState, Abandon, Selection, TypeOK
<1>6. CASE Verify
  BY <1>6 DEF Verify, Goto, Abandon, Selection, TypeOK
<1>7. CASE Retain
  BY <1>7 DEF Retain, Copied, TypeOK
<1>8. CASE FinalState
  BY <1>8 DEF FinalState, Abandon, Selection, TypeOK
<1>9. CASE CopyReturns
  BY <1>9 DEF CopyReturns, Return, TypeOK
<1>10. CASE Target
  BY <1>10 DEF Target, Goto, Return, TypeOK
<1>11. CASE Paste
  BY <1>11 DEF Paste, StartTool, Goto, TypeOK
<1>12. CASE PasteEnds
  BY <1>12 DEF PasteEnds, Return, TypeOK
<1>13. CASE PasteMissing
  BY <1>13 DEF PasteMissing, Return, TypeOK
<1>14. CASE Over
  BY <1>14 DEF Over, TypeOK
<1>15. CASE Claim
  BY <1>15 DEF Claim, Outside, TypeOK
<1>16. CASE TakeSelection
  BY <1>16 DEF TakeSelection, Outside, TypeOK
<1>17. CASE CandExits
  BY <1>17 DEF CandExits, Outside, Selection, TypeOK
<1>18. CASE OwnerExits
  BY <1>18 DEF OwnerExits, Outside, Selection, TypeOK
<1>19. CASE ToolActs
  <2>1. CASE pc = "typing"
    <3>1. /\ pasted = <<>> /\ typed' \in {"part", "all"} /\ tool' = tool /\ tool = "live"
          /\ UNCHANGED <<pc, pasted, method, text, outcome, foreign, stale>>
      BY <1>19, <2>1 DEF ToolActs, Outside
    <3> QED
      BY <2>1, <3>1
  <2>2. CASE pc = "pasting"
    <3>1. /\ tool = "live" /\ tool' = "acted" /\ pasted' = Append(pasted, sel.text)
          /\ UNCHANGED <<pc, typed, method, text, outcome, foreign, stale>>
      BY <1>19, <2>2 DEF ToolActs, Outside
    <3>2. pasted = <<>>
      BY <2>2, <3>1
    <3>3. pasted' = <<sel.text>> /\ Len(pasted') = 1
      BY <3>1, <3>2
    <3>4. ~foreign /\ ~stale => sel.text = text
      BY <2>2 DEF KeptInv, Kept
    <3>5. ~foreign' /\ ~stale' => pasted' = <<text'>>
      BY <3>1, <3>3, <3>4
    <3> QED
      BY <2>2, <3>1, <3>3, <3>5
  <2> QED
    BY <1>19, <2>1, <2>2 DEF ToolActs
<1>20. CASE ToolExits
  BY <1>20 DEF ToolExits, Outside, TypeOK
<1>21. ASSUME NEW t \in Texts, NEW m \in {"clipboard", "paste", "type"}, Deliver(t, m)
      PROVE  InsertInv' /\ InsertedOnce'
  BY <1>21 DEF Deliver, TypeOK
<1>22. CASE UNCHANGED vars
  BY <1>22 DEF TypeOK
<1> QED
  BY <1>1, <1>2, <1>3, <1>4, <1>5, <1>6, <1>7, <1>8, <1>9, <1>10, <1>11, <1>12,
      <1>13, <1>14, <1>15, <1>16, <1>17, <1>18, <1>19, <1>20, <1>21, <1>22 DEF Next,
      DeliverStep

\* Nothing has been delivered at first.
LEMMA DeliveryInit == Init => DeliveryInv
<1> SUFFICES ASSUME Init PROVE DeliveryInv
  OBVIOUS
<1>1. TypeOK
  <2>1. sel \in Selections /\ text \in Texts /\ kept \in Texts
    BY SelectionTypes DEF Init
  <2>2. count \in 0..MaxDeliveries
    BY DEF Init
  <2>3. foreign \in BOOLEAN /\ stale \in BOOLEAN
    BY DEF Init
  <2>4. pasted \in Seq(Texts \cup {Nothing, Other})
    BY DEF Init
  <2> QED
    BY <2>1, <2>2, <2>3, <2>4 DEF Init, TypeOK, Selections, Running, Outcomes
<1>2. ToolInv /\ SelectionInv /\ KeptInv
  BY DEF Init, ToolInv, SelectionInv, KeptInv, Copying, Kept, Claims
<1>3. InsertInv /\ InsertedOnce
  BY DEF Init, InsertInv, InsertedOnce, Reported
<1> QED
  BY <1>1, <1>2, <1>3 DEF DeliveryInv

\* The delivery invariant holds throughout.
LEMMA DeliveryInvariant == Spec => []DeliveryInv
<1>1. DeliveryInv /\ [Next]_vars => DeliveryInv'
  BY TypeStep, ToolStep, SelectionStep, KeptStep, InsertStep DEF DeliveryInv
<1> QED
  BY DeliveryInit, <1>1, PTL DEF Spec

\* Type correctness of the delivery and of the desktop around it.
THEOREM DeliveryTypes == Spec => []TypeOK
<1>1. DeliveryInv => TypeOK
  BY DEF DeliveryInv
<1> QED
  BY DeliveryInvariant, <1>1, PTL

\* A delivery that reports the clipboard leaves the transcript there, although the
\* process that owned it before has been ended.
THEOREM ClipboardSurvives == Spec => []ClipboardKept
<1>1. DeliveryInv => ClipboardKept
  BY DEF DeliveryInv, KeptInv, ClipboardKept, Reported, Claims
<1> QED
  BY DeliveryInvariant, <1>1, PTL

\* What was inserted is what the outcome says, and never twice.
THEOREM NeverInsertedTwice == Spec => []InsertedOnce
<1>1. DeliveryInv => InsertedOnce
  BY DEF DeliveryInv
<1> QED
  BY DeliveryInvariant, <1>1, PTL

\* After a delivery no tool still runs, and none that failed verification holds the
\* selection.
THEOREM ToolsEnded == Spec => []NothingLeftRunning
<1>1. DeliveryInv => NothingLeftRunning
  BY DEF DeliveryInv, ToolInv, SelectionInv, Copying, NothingLeftRunning, Reported
<1> QED
  BY DeliveryInvariant, <1>1, PTL
=============================================================================
