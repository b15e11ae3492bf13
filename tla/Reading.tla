------------------------------- MODULE Reading -------------------------------
(***************************************************************************)
(* The parser on written programs, whole, with a chunk missing, and some   *)
(* that break a rule about events.                                         *)
(***************************************************************************)
EXTENDS Parser, Writing

CONSTANTS Programs,     \* what is written
          Damaged,      \* those of them that also lose a chunk
          Forbidden     \* programs that break a rule about events

VARIABLE written        \* history: the program, its text and what is wrong with it

readingVars == <<parserVars, written>>

Whole == "nothing"
OutOfOrder == "a rule"
ReadingInit ==
  /\ \/ \E p \in Programs, loose \in BOOLEAN :
          written = [program |-> p, text |-> Written(p, loose), lost |-> Whole]
     \/ \E f \in Forbidden :
          written = [program |-> f, text |-> Written(f, FALSE), lost |-> OutOfOrder]
     \/ \E d \in Damaged : \E i \in 1 .. Len(Written(d, FALSE)) :
          written = [program |-> d, text |-> RemoveAt(Written(d, FALSE), i),
                     lost |-> Written(d, FALSE)[i]]
  /\ ParserInit(written.text)
ReadingNext == Read /\ UNCHANGED written
ReadingSpec == ReadingInit /\ [][ReadingNext]_readingVars

------------------------------------------------------------------------------
\* The table names each event once and within its places, and what is left
\* of the text is an end of it.
ReadingTypeOK ==
  /\ status \in {"reading", "accepted", "refused", "hangs"}
  /\ IsSuffix(text, written.text)
  /\ \A i, j \in DOMAIN EVENT_TABLE : EVENT_TABLE[i] = EVENT_TABLE[j] => i = j
  /\ Len(EVENT_TABLE) <= EVENT_TABLE_SIZE /\ symbols \subseteq ToSet(EVENT_TABLE)

Defs(es) == SelectSeq(es, LAMBDA e : e.kind \in {"SetVarL", "SetVarEvent"} \/ Handles(e, {"entry"}))
HandlersOf(es, id) ==
  SelectSeq(es, LAMBDA e : (e.kind = "Event" /\ e.id = id) \/ (e.kind = "Call" /\ e.function = id))
Named(es) == {e.id : e \in {e \in ToSet(es) : e.kind = "Event"}}
               \cup {e.function : e \in {e \in ToSet(es) : e.kind = "Call"}}

\* One state tree holds what another does, in another order of its events at most.
SameState(s, t) ==
  /\ s.id = t.id /\ Len(s.events) = Len(t.events) /\ Defs(s.events) = Defs(t.events)
  /\ Named(s.events) = Named(t.events)
  /\ \A id \in Named(s.events) : HandlersOf(s.events, id) = HandlersOf(t.events, id)
SameTree(s, t) == IF s.kind = "State" /\ t.kind = "State" THEN SameState(s, t) ELSE s = t

Kept == SelectSeq(written.program, LAMBDA d : d.kind # "SetVarEvent")
ReadBack ==
  /\ Len(programTrees) = Len(Kept) + 1
  /\ \A i \in DOMAIN Kept : SameTree(Kept[i], programTrees[i])
  /\ ToSet(EVENT_TABLE) \subseteq GlobalEvents

\* A program written with C's operators is read as that program: every
\* operator with its operands, every else with its if, every name and
\* argument in its place, and every handler of a state once.
ReadsWhatIsWritten ==
  written.lost = Whole /\ status # "reading" => status = "accepted" /\ ReadBack

\* A program is never accepted that mentions more events than there are
\* places, takes an event for an event function, calls an event function of
\* the library without init, or handles, inits or calls what is no event
\* there, wherever in the text that shows.
ForbiddenIsRefused ==
  written.lost = OutOfOrder /\ status # "reading" => status = "refused"

\* The handlers of a state come in the order of the bits of their events,
\* behind the definitions, those of local events last, as the set-up code
\* compiled from them needs it (optimaize.c, STATE).
Rank(e) ==
  LET id == IF e.kind = "Call" THEN e.function ELSE e.id
      places == {i \in DOMAIN EVENT_TABLE : EVENT_TABLE[i] = id}
  IN  CASE e.kind \in {"SetVarL", "SetVarEvent"} \/ Handles(e, {"entry"}) -> 0
        [] places # {} -> CHOOSE i \in places : TRUE
        [] OTHER -> EVENT_TABLE_SIZE + 1
HandlersInOrderOfBits ==
  status = "accepted" =>
    \A d \in ToSet(programTrees) : d.kind = "State" =>
      \A i, j \in DOMAIN d.events : i < j => Rank(d.events[i]) <= Rank(d.events[j])

\* Nothing of a program can be left out unnoticed: without a chunk that is
\* no blank, line end or bracket, it is refused or another program.
NothingIsIgnored ==
  (status = "accepted" /\ written.lost \notin {Whole, OutOfOrder, " ", "\n", "(", ")"}) => ~ ReadBack

Opened(t) == Len(SelectSeq(t, LAMBDA c : c = "{"))
Closed(t) == Len(SelectSeq(t, LAMBDA c : c = "}"))

\* A program with a brace too few or too many is never accepted, although
\* a block takes any line that is no statement (the message comes later).
UnfinishedIsRefused ==
  status = "accepted" => Opened(written.text) = Closed(written.text)

\* Only a block without its end keeps the parser busy for ever: at the end
\* of the text it reads an empty statement again and again.
OnlyUnfinishedBlocksHang ==
  status = "hangs" => Opened(written.text) > Closed(written.text)
==============================================================================
