-------------------------- MODULE ChatContextProofs --------------------------
(***************************************************************************)
(* What the stored chat context keeps, for any constants: any limits of    *)
(* the summary and the window, any number of failed writes and crashes.    *)
(*                                                                         *)
(* Titles.  Every append writes the cached title over the stored one, so   *)
(* the title on disk is safe only as long as the cache agrees with it,     *)
(* after each of the writes an operation consists of and not just at its   *)
(* end.                                                                    *)
(*                                                                         *)
(* Coverage.  A summary is made from the one before it and a chunk of the  *)
(* messages after that one's end, or from what the model was shown: its    *)
(* predecessor and a window of recent messages.  The second is right only  *)
(* while what no summary covers fits the window, which a refresh that      *)
(* fails puts off: the invariant bounds the backlog by what a refresh      *)
(* leaves and one message for each fault, and WindowHolds says that the    *)
(* window takes as much.  Without faults that is a matter of the limits    *)
(* alone, for messages of any length.                                      *)
(*                                                                         *)
(* The sums, the window and the tokens of a chunk are recursive functions  *)
(* of the model.  That such a function exists on 0..n is shown here from   *)
(* the least n for which it would not.                                     *)
(***************************************************************************)
EXTENDS ChatContextProperties, NaturalsInduction, WellFoundedInduction, FiniteSetTheorems, TLAPS

-----------------------------------------------------------------------------
(* The inductive invariant.                                                *)

(* A title the user gave is the one stored.                                *)
Titled(d) ==
    /\ {"title", "renamed"} \subseteq DOMAIN d
    /\ d.renamed => d.title = "by user"

(* A run, and a compaction within it, belong to an active conversation.    *)
Attached(m) ==
    /\ {"conversation", "title", "activeRuns", "run",
         "restored", "prompt", "compacting", "seen"} = DOMAIN m
    /\ m.conversation \in Conversations \cup {NoConversation}
    /\ m.run # NoRun => m.conversation # NoConversation
    /\ m.restored => m.run # NoRun
    /\ m.compacting => m.restored

(* The cached record has the title the user gave.                          *)
CacheAgrees ==
    \A c \in Conversations :
        manager.conversation = c /\ disk[c].renamed => manager.title = "by user"

(* Stored titles, and the cache that will overwrite them.                  *)
TitleInv ==
    /\ DOMAIN disk = Conversations
    /\ \A c \in Conversations : Titled(disk[c])
    /\ Attached(manager)
    /\ CacheAgrees

(* A stage of an operation on c at which the operation may be interrupted. *)
SafeAt(c, s) ==
    /\ Titled(s.dir)
    /\ Attached(s.manager)
    /\ s.manager.conversation = c /\ s.dir.renamed => s.manager.title = "by user"
    /\ \/ s.manager.conversation \in {c, NoConversation}
       \/ /\ s.manager.conversation = manager.conversation
          /\ s.manager.title = manager.title

(* The same, of an operation on the active conversation.                   *)
SafeHere(c, s) == SafeAt(c, s) /\ s.manager.conversation = c

(* All stages of an operation are safe.                                    *)
AllSafe(c, stages) == \E S : stages \in Seq(S) /\ \A s \in S : SafeAt(c, s)

-----------------------------------------------------------------------------
(* Stages.                                                                 *)

(* What a stage is made of.                                                *)
LEMMA StageParts ==
    ASSUME NEW d, NEW m, NEW j
    PROVE  Stage(d, m, j).dir = d /\ Stage(d, m, j).manager = m
BY DEF Stage

(* A safe stage, by its parts.                                             *)
LEMMA SafeParts ==
    ASSUME NEW c, NEW d, NEW m
    PROVE  SafeAt(c, Stage(d, m, NoJournal)) <=>
               /\ Titled(d)
               /\ Attached(m)
               /\ m.conversation = c /\ d.renamed => m.title = "by user"
               /\ \/ m.conversation \in {c, NoConversation}
                  \/ m.conversation = manager.conversation /\ m.title = manager.title
<1>1. Stage(d, m, NoJournal).dir = d /\ Stage(d, m, NoJournal).manager = m
  BY StageParts
<1> QED
  BY <1>1 DEF SafeAt

(* A program that is not running is attached to nothing.                   *)
LEMMA RestIsAttached == Attached(AtRest)
BY ContextAssumption DEF Attached, AtRest

(* Stages are safe together when each of them is.                          *)
LEMMA SafeMembers ==
    ASSUME NEW c, NEW S, NEW stages \in Seq(S), \A s \in S : SafeAt(c, s)
    PROVE  AllSafe(c, stages)
BY DEF AllSafe

(* The writes of two parts, one after the other.                           *)
LEMMA SafeInARow ==
    ASSUME NEW c, NEW s, NEW t, AllSafe(c, s), AllSafe(c, t)
    PROVE  AllSafe(c, s \o t)
<1>1. PICK S : s \in Seq(S) /\ \A x \in S : SafeAt(c, x)
  BY DEF AllSafe
<1>2. PICK T : t \in Seq(T) /\ \A x \in T : SafeAt(c, x)
  BY DEF AllSafe
<1>3. s \in Seq(S \cup T) /\ t \in Seq(S \cup T)
  BY <1>1, <1>2
<1>4. s \o t \in Seq(S \cup T) /\ \A x \in S \cup T : SafeAt(c, x)
  BY <1>1, <1>2, <1>3
<1> QED
  BY <1>4 DEF AllSafe

(* No write at all.                                                        *)
LEMMA SafeNone == ASSUME NEW c PROVE AllSafe(c, <<>>)
<1> DEFINE S == {}
<1>1. <<>> \in Seq(S) /\ \A x \in S : SafeAt(c, x)
  OBVIOUS
<1> HIDE DEF S
<1> QED
  BY <1>1, SafeMembers

(* One write.                                                              *)
LEMMA SafeOne ==
    ASSUME NEW c, NEW s, SafeAt(c, s)
    PROVE  AllSafe(c, <<s>>)
<1> DEFINE S == {s}
<1>1. <<s>> \in Seq(S) /\ \A x \in S : SafeAt(c, x)
  OBVIOUS
<1> HIDE DEF S
<1> QED
  BY <1>1, SafeMembers

(* Two writes.                                                             *)
LEMMA SafeTwo ==
    ASSUME NEW c, NEW s, NEW t, SafeAt(c, s), SafeAt(c, t)
    PROVE  AllSafe(c, <<s, t>>)
<1> DEFINE S == {s, t}
<1>1. <<s, t>> \in Seq(S) /\ \A x \in S : SafeAt(c, x)
  OBVIOUS
<1> HIDE DEF S
<1> QED
  BY <1>1, SafeMembers

(* Three writes.                                                           *)
LEMMA SafeThree ==
    ASSUME NEW c, NEW s, NEW t, NEW u, SafeAt(c, s), SafeAt(c, t), SafeAt(c, u)
    PROVE  AllSafe(c, <<s, t, u>>)
<1> DEFINE S == {s, t, u}
<1>1. <<s, t, u>> \in Seq(S) /\ \A x \in S : SafeAt(c, x)
  OBVIOUS
<1> HIDE DEF S
<1> QED
  BY <1>1, SafeMembers

(* Two writes and perhaps more are not none.                               *)
LEMMA FirstOfTwo ==
    ASSUME NEW s, NEW t, NEW S, NEW u \in Seq(S)
    PROVE  <<s, t>> \o u # <<>>
<1> DEFINE T == S \cup {s, t}
<1>1. <<s, t>> \in Seq(T) /\ u \in Seq(T) /\ Len(<<s, t>>) = 2
  OBVIOUS
<1> HIDE DEF T
<1>2. Len(<<s, t>> \o u) = 2 + Len(u) /\ Len(u) \in Nat
  BY <1>1
<1> QED
  BY <1>2

(* ensure_conversation writes the cached title.                            *)
LEMMA EnsureIsSafe ==
    ASSUME NEW c, NEW s, SafeHere(c, s)
    PROVE  SafeHere(c, Ensure(s)) /\ Ensure(s).manager = s.manager
<1> DEFINE d == [s.dir EXCEPT !.exists = TRUE, !.title = s.manager.title]
<1>1. Ensure(s).dir = d /\ Ensure(s).manager = s.manager
  BY StageParts DEF Ensure
<1>2. /\ DOMAIN d = DOMAIN s.dir
      /\ d.renamed = s.dir.renamed
      /\ d.title = s.manager.title
  BY DEF SafeHere, SafeAt, Titled
<1> HIDE DEF d
<1>3. Titled(d)
  BY <1>2 DEF SafeHere, SafeAt, Titled
<1> QED
  BY <1>1, <1>2, <1>3 DEF SafeHere, SafeAt

(* A write of anything else leaves title and rename as they are.           *)
LEMMA SameTitle ==
    ASSUME NEW c, NEW s, NEW d, NEW j, SafeHere(c, s), DOMAIN d = DOMAIN s.dir,
           d.title = s.dir.title, d.renamed = s.dir.renamed
    PROVE  SafeHere(c, Stage(d, s.manager, j))
<1>1. Stage(d, s.manager, j).dir = d /\ Stage(d, s.manager, j).manager = s.manager
  BY StageParts
<1> QED
  BY <1>1 DEF SafeHere, SafeAt, Titled

(* add_summary is two such writes.                                         *)
LEMMA SummaryIsSafe ==
    ASSUME NEW c, NEW s, NEW summary, SafeHere(c, s)
    PROVE  AllSafe(c, AddSummary(s, summary))
<1> DEFINE journaled == [s.dir EXCEPT !.summaries = Append(@, summary)]
           latest == [journaled EXCEPT !.latest = summary]
<1>1. /\ DOMAIN journaled = DOMAIN s.dir
      /\ journaled.title = s.dir.title
      /\ journaled.renamed = s.dir.renamed
  BY DEF SafeHere, SafeAt, Titled
<1>2. /\ DOMAIN latest = DOMAIN s.dir
      /\ latest.title = s.dir.title
      /\ latest.renamed = s.dir.renamed
  BY <1>1 DEF SafeHere, SafeAt, Titled
<1>3. AddSummary(s, summary) = <<Stage(journaled, s.manager, "summaries"),
                                 Stage(latest, s.manager, NoJournal)>>
  BY DEF AddSummary
<1> HIDE DEF journaled, latest
<1> QED
  BY <1>1, <1>2, <1>3, SameTitle, SafeTwo DEF SafeHere

(* After both the conversation is the same.                                *)
LEMMA SummaryIsHere ==
    ASSUME NEW c, NEW s, NEW summary, SafeHere(c, s)
    PROVE  SafeHere(c, Last(AddSummary(s, summary)))
<1> DEFINE longer == Append(s.dir.summaries, summary)
           latest == [s.dir EXCEPT !.summaries = longer, !.latest = summary]
           written == Stage(latest, s.manager, NoJournal)
           first == Stage([s.dir EXCEPT !.summaries = longer], s.manager, "summaries")
<1>1. /\ DOMAIN latest = DOMAIN s.dir
      /\ latest.title = s.dir.title
      /\ latest.renamed = s.dir.renamed
  BY DEF SafeHere, SafeAt, Titled
<1>2. AddSummary(s, summary) = <<first, written>>
  BY DEF AddSummary
<1> HIDE DEF latest, first
<1>3. SafeHere(c, written)
  BY <1>1, SameTitle
<1> HIDE DEF written
<1>4. Last(<<first, written>>) = written
  BY DEF Last
<1> QED
  BY <1>2, <1>3, <1>4

(* Nor does it change when the run's messages are built anew.              *)
LEMMA RebuildIsSafe ==
    ASSUME NEW c, NEW s, SafeHere(c, s)
    PROVE  SafeHere(c, Rebuild(s))
<1> DEFINE told == Prompt(s.dir)
           m == [s.manager EXCEPT !.prompt = told]
<1>1. Rebuild(s).dir = s.dir /\ Rebuild(s).manager = m
  BY StageParts DEF Rebuild
<1> HIDE DEF told
<1>2. /\ DOMAIN m = DOMAIN s.manager
      /\ m.conversation = s.manager.conversation /\ m.title = s.manager.title
      /\ m.run = s.manager.run /\ m.restored = s.manager.restored
      /\ m.compacting = s.manager.compacting
  BY DEF SafeHere, SafeAt, Attached
<1> HIDE DEF m
<1>3. Attached(m)
  BY <1>2 DEF SafeHere, SafeAt, Attached
<1> QED
  BY <1>1, <1>2, <1>3 DEF SafeHere, SafeAt

(* So are the writes of a refresh, after it has ensured the conversation.  *)
LEMMA RefreshIsSafe ==
    ASSUME NEW c, NEW s, SafeHere(c, s)
    PROVE  AllSafe(c, RefreshSummary(s))
<1>1. SafeHere(c, Ensure(s))
  BY EnsureIsSafe
<1> DEFINE rest == IF SummaryReadable(s.dir) /\ RefreshDue(s.dir)
                   THEN AddSummary(Ensure(s), NextSummary(s.dir)) ELSE <<>>
<1>2. AllSafe(c, rest)
  BY <1>1, SummaryIsSafe, SafeNone
<1>3. AllSafe(c, <<Ensure(s)>>)
  BY <1>1, SafeOne DEF SafeHere
<1>4. RefreshSummary(s) = <<Ensure(s)>> \o rest
  BY DEF RefreshSummary
<1> HIDE DEF rest
<1> QED
  BY <1>2, <1>3, <1>4, SafeInARow

(* A message is journaled with what the run's messages then tell.          *)
LEMMA TellIsSafe ==
    ASSUME NEW c, NEW s, NEW d, NEW j, NEW n, NEW speaks, SafeHere(c, s), DOMAIN d = DOMAIN s.dir,
           d.title = s.dir.title, d.renamed = s.dir.renamed
    PROVE  LET told == IF speaks THEN Tell(s.manager, n) ELSE s.manager
           IN  /\ SafeHere(c, Stage(d, told, j))
               /\ told.title = s.manager.title /\ told.conversation = c
<1> DEFINE told == IF speaks THEN Tell(s.manager, n) ELSE s.manager
<1>1. Attached(s.manager) /\ s.manager.conversation = c
  BY DEF SafeHere, SafeAt
<1>2. /\ DOMAIN told = DOMAIN s.manager
      /\ told.conversation = s.manager.conversation /\ told.title = s.manager.title
      /\ told.run = s.manager.run /\ told.restored = s.manager.restored
      /\ told.compacting = s.manager.compacting
  BY <1>1 DEF Attached, Tell
<1> HIDE DEF told
<1>3. Attached(told)
  BY <1>1, <1>2 DEF Attached
<1>4. Stage(d, told, j).dir = d /\ Stage(d, told, j).manager = told
  BY StageParts
<1>5. SafeHere(c, Stage(d, told, j))
  BY <1>1, <1>2, <1>3, <1>4 DEF SafeHere, SafeAt, Titled
<1> QED
  BY <1>1, <1>2, <1>5 DEF told

(* An automatic title is given only where there is none.                   *)
LEMMA MessageIsSafe ==
    ASSUME NEW c, NEW s, NEW kind, SafeHere(c, s)
    PROVE  AllSafe(c, StoreMessage(s, kind))
<1> DEFINE message == [sequence |-> LatestSequence(s.dir) + 1, tokens |-> kind.tokens,
                       prompt |-> kind.prompt]
           withMessage == [s.dir EXCEPT !.messages = Append(@, message)]
           told == IF kind.prompt THEN Tell(s.manager, LatestSequence(s.dir) + 1)
                   ELSE s.manager
           journaled == Stage(withMessage, told, "messages")
           title == IF journaled.dir.title = "" /\ kind.user THEN "from first message"
                    ELSE journaled.dir.title
           named == [journaled.dir EXCEPT !.title = title]
           stored == Stage(named, journaled.manager, NoJournal)
<1>1. /\ DOMAIN withMessage = DOMAIN s.dir
      /\ withMessage.title = s.dir.title
      /\ withMessage.renamed = s.dir.renamed
  BY DEF SafeHere, SafeAt, Titled
<1>2. StoreMessage(s, kind) = <<journaled, stored>> \o RefreshSummary(stored)
  BY DEF StoreMessage
<1> HIDE DEF withMessage
<1>3. journaled.dir = withMessage /\ journaled.manager = told
  BY StageParts
<1>4. SafeHere(c, journaled) /\ told.title = s.manager.title /\ told.conversation = c
  BY <1>1, TellIsSafe
<1> HIDE DEF journaled, told
<1>5. title = withMessage.title \/ withMessage.title = ""
  BY <1>3
<1> HIDE DEF title
<1>6. /\ DOMAIN named = DOMAIN withMessage
      /\ named.renamed = withMessage.renamed
      /\ named.title = title
  BY <1>1, <1>3 DEF SafeHere, SafeAt, Titled
<1>7. stored.dir = named /\ stored.manager = told
  BY <1>3, StageParts
<1> HIDE DEF named, stored
<1>8. Titled(named)
  BY <1>1, <1>5, <1>6 DEF SafeHere, SafeAt, Titled
<1>9. SafeHere(c, stored)
  BY <1>1, <1>3, <1>4, <1>6, <1>7, <1>8 DEF SafeHere, SafeAt
<1> QED
  BY <1>2, <1>4, <1>9, SafeTwo, RefreshIsSafe, SafeInARow DEF SafeHere

-----------------------------------------------------------------------------
(* Operations.                                                             *)

(* A stage replaces a directory and the manager, and keeps the invariant.  *)
LEMMA StageKeeps ==
    ASSUME TitleInv, NEW c \in Conversations, NEW d, NEW m, SafeAt(c, Stage(d, m, NoJournal)),
           disk' = [disk EXCEPT ![c] = d], manager' = m
    PROVE  TitleInv'
<1>1. /\ Titled(d) /\ Attached(m)
      /\ m.conversation = c /\ d.renamed => m.title = "by user"
      /\ \/ m.conversation \in {c, NoConversation}
         \/ m.conversation = manager.conversation /\ m.title = manager.title
  BY SafeParts
<1>2. /\ DOMAIN disk' = Conversations
      /\ disk'[c] = d
      /\ \A e \in Conversations : e # c => disk'[e] = disk[e]
  BY DEF TitleInv
<1>3. \A e \in Conversations : Titled(disk'[e])
  BY <1>1, <1>2 DEF TitleInv
<1>4. CacheAgrees'
  <2> SUFFICES ASSUME NEW e \in Conversations, m.conversation = e, disk'[e].renamed
               PROVE  m.title = "by user"
    BY DEF CacheAgrees
  <2>1. CASE e = c
    BY <1>1, <1>2, <2>1
  <2>2. CASE e # c
    <3>1. m.conversation = manager.conversation /\ m.title = manager.title
      BY <1>1, <2>2, ContextAssumption
    <3>2. disk[e].renamed
      BY <1>2, <2>2
    <3> QED
      BY <3>1, <3>2 DEF TitleInv, CacheAgrees
  <2> QED
    BY <2>1, <2>2
<1>5. (\A e \in Conversations : Titled(disk[e]))'
  BY <1>3 DEF Titled
<1>6. Attached(manager)'
  BY <1>1 DEF Attached
<1> QED
  BY <1>2, <1>4, <1>5, <1>6 DEF TitleInv

(* An operation whose stages are all safe keeps it, wherever it fails.     *)
LEMMA PerformKeeps ==
    ASSUME TitleInv, NEW c \in Conversations, NEW stages, AllSafe(c, stages),
           stages # <<>>, Perform(c, stages)
    PROVE  TitleInv'
<1>1. PICK S : stages \in Seq(S) /\ \A s \in S : SafeAt(c, s)
  BY DEF AllSafe
<1>2. \A k \in 1..Len(stages) : SafeAt(c, stages[k])
  BY <1>1
<1>3. Len(stages) \in Nat \ {0}
  BY <1>1
<1>4. CASE /\ disk' = [disk EXCEPT ![c] = Last(stages).dir]
           /\ manager' = Last(stages).manager
  <2>1. SafeAt(c, Last(stages))
    BY <1>2, <1>3 DEF Last
  <2>2. SafeAt(c, Stage(Last(stages).dir, Last(stages).manager, NoJournal))
    <3>1. /\ Titled(Last(stages).dir)
          /\ Attached(Last(stages).manager)
          /\ Last(stages).manager.conversation = c /\ Last(stages).dir.renamed
                => Last(stages).manager.title = "by user"
          /\ \/ Last(stages).manager.conversation \in {c, NoConversation}
             \/ /\ Last(stages).manager.conversation = manager.conversation
                /\ Last(stages).manager.title = manager.title
      BY <2>1 DEF SafeAt
    <3> QED
      BY <3>1, SafeParts
  <2> QED
    BY <1>4, <2>2, StageKeeps
<1>5. CASE \E k \in Failures(stages) :
             /\ faults' = faults + 1
             /\ \E torn \in SUBSET ({stages[k + 1].journal} \ {NoJournal}) :
                   disk' = [disk EXCEPT ![c] = [stages[k].dir EXCEPT !.torn = @ \cup torn]]
             /\ manager' \in {stages[k].manager, AtRest}
  <2>1. PICK k \in Failures(stages) :
             /\ \E torn \in SUBSET ({stages[k + 1].journal} \ {NoJournal}) :
                   disk' = [disk EXCEPT ![c] = [stages[k].dir EXCEPT !.torn = @ \cup torn]]
             /\ manager' \in {stages[k].manager, AtRest}
    BY <1>5
  <2>2. PICK torn : disk' = [disk EXCEPT ![c] = [stages[k].dir EXCEPT !.torn = @ \cup torn]]
    BY <2>1
  <2>3. SafeAt(c, stages[k])
    BY <1>2, <1>3 DEF Failures
  <2> DEFINE d == [stages[k].dir EXCEPT !.torn = @ \cup torn]
  <2>4. /\ DOMAIN d = DOMAIN stages[k].dir
        /\ d.title = stages[k].dir.title
        /\ d.renamed = stages[k].dir.renamed
    BY <2>3 DEF SafeAt, Titled
  <2>5. disk' = [disk EXCEPT ![c] = d]
    BY <2>2
  <2> HIDE DEF d
  <2>6. SafeAt(c, Stage(d, stages[k].manager, NoJournal))
    <3>1. /\ Titled(d)
          /\ Attached(stages[k].manager)
          /\ stages[k].manager.conversation = c /\ d.renamed
                => stages[k].manager.title = "by user"
          /\ \/ stages[k].manager.conversation \in {c, NoConversation}
             \/ /\ stages[k].manager.conversation = manager.conversation
                /\ stages[k].manager.title = manager.title
      BY <2>3, <2>4 DEF SafeAt, Titled
    <3> QED
      BY <3>1, SafeParts
  <2>7. SafeAt(c, Stage(d, AtRest, NoJournal))
    <3>1. AtRest.conversation = NoConversation /\ NoConversation # c
      BY ContextAssumption DEF AtRest
    <3>2. Titled(d)
      BY <2>3, <2>4 DEF SafeAt, Titled
    <3> QED
      BY <3>1, <3>2, RestIsAttached, SafeParts
  <2>8. CASE manager' = stages[k].manager
    BY <2>5, <2>6, <2>8, StageKeeps
  <2>9. CASE manager' = AtRest
    BY <2>5, <2>7, <2>9, StageKeeps
  <2> QED
    BY <2>1, <2>8, <2>9
<1> QED
  BY <1>4, <1>5 DEF Perform

(* Before its first write an operation may change the manager.             *)
LEMMA DirectlySafe ==
    ASSUME TitleInv, NEW c \in Conversations, NEW m, Attached(m),
           \/ /\ m.conversation = manager.conversation
              /\ m.title = manager.title
           \/ m.conversation = c /\ m.title = disk[c].title
    PROVE  /\ SafeAt(c, Directly(c, m))
           /\ m.conversation = c => SafeHere(c, Directly(c, m))
           /\ Directly(c, m).dir = disk[c] /\ Directly(c, m).manager = m
<1>1. Directly(c, m).dir = disk[c] /\ Directly(c, m).manager = m
  BY StageParts DEF Directly
<1>2. Titled(disk[c])
  BY DEF TitleInv
<1>3. m.conversation = c /\ disk[c].renamed => m.title = "by user"
  BY <1>2 DEF TitleInv, CacheAgrees, Titled
<1> QED
  BY <1>1, <1>2, <1>3 DEF SafeAt, SafeHere

(* set_active_workspace caches what is stored.                             *)
LEMMA WorkspaceSafe ==
    ASSUME TitleInv, NEW c \in Conversations
    PROVE  /\ SafeHere(c, Directly(c, SetActiveWorkspace(c)))
           /\ Directly(c, SetActiveWorkspace(c)).manager = SetActiveWorkspace(c)
           /\ SetActiveWorkspace(c).conversation = c
<1> DEFINE m == SetActiveWorkspace(c)
<1>1. /\ DOMAIN m = DOMAIN manager
      /\ m.conversation = c /\ m.title = disk[c].title
      /\ m.run = manager.run /\ m.compacting = manager.compacting
      /\ m.restored = manager.restored
  BY DEF SetActiveWorkspace, TitleInv, Attached
<1> HIDE DEF m
<1>2. Attached(m)
  BY <1>1, ContextAssumption DEF TitleInv, Attached
<1> QED
  BY <1>1, <1>2, DirectlySafe DEF m

(* A new conversation.                                                     *)
LEMMA StartNewConversationKeeps ==
    ASSUME TitleInv, StartNewConversation
    PROVE  TitleInv'
<1>1. PICK c \in Conversations :
        /\ disk[c] = EmptyDirectory
        /\ LET s == Directly(c, [manager EXCEPT !.conversation = c, !.title = ""])
           IN  Perform(c, <<s, Ensure(s)>>)
  BY DEF StartNewConversation
<1> DEFINE m == [manager EXCEPT !.conversation = c, !.title = ""]
           s == Directly(c, m)
<1>2. /\ DOMAIN m = DOMAIN manager
      /\ m.conversation = c /\ m.title = ""
      /\ m.run = manager.run /\ m.compacting = manager.compacting
      /\ m.restored = manager.restored
  BY DEF TitleInv, Attached
<1>3. Perform(c, <<s, Ensure(s)>>)
  BY <1>1
<1> HIDE DEF m
<1>4. Attached(m)
  BY <1>2, ContextAssumption DEF TitleInv, Attached
<1>5. m.title = disk[c].title
  <2>1. EmptyDirectory.title = ""
    BY DEF EmptyDirectory
  <2> QED
    BY <1>1, <1>2, <2>1
<1>6. SafeHere(c, s)
  BY <1>2, <1>4, <1>5, DirectlySafe
<1> HIDE DEF s
<1>7. AllSafe(c, <<s, Ensure(s)>>)
  BY <1>6, EnsureIsSafe, SafeTwo DEF SafeHere
<1> QED
  BY <1>3, <1>7, PerformKeeps

(* A conversation is loaded.                                               *)
LEMMA RestoreChatKeeps ==
    ASSUME TitleInv, RestoreChat
    PROVE  TitleInv'
<1>1. PICK c \in Conversations :
        LET s == Directly(c, SetActiveWorkspace(c)) IN Perform(c, <<s, Ensure(s)>>)
  BY DEF RestoreChat
<1> DEFINE s == Directly(c, SetActiveWorkspace(c))
<1>2. Perform(c, <<s, Ensure(s)>>)
  BY <1>1
<1>3. SafeHere(c, s)
  BY WorkspaceSafe
<1> HIDE DEF s
<1>4. AllSafe(c, <<s, Ensure(s)>>)
  BY <1>3, EnsureIsSafe, SafeTwo DEF SafeHere
<1> QED
  BY <1>2, <1>4, PerformKeeps

(* The user renames a conversation, perhaps the active one.                *)
LEMMA RenameConversationKeeps ==
    ASSUME TitleInv, RenameConversation
    PROVE  TitleInv'
<1>1. PICK c \in Conversations :
        LET renamed == [disk[c] EXCEPT !.title = "by user", !.renamed = TRUE]
            cached == IF c # Active THEN manager
                      ELSE [manager EXCEPT !.title = "by user"]
        IN  Perform(c, <<Directly(c, manager), Stage(renamed, cached, NoJournal)>>)
  BY DEF RenameConversation
<1> DEFINE renamed == [disk[c] EXCEPT !.title = "by user", !.renamed = TRUE]
           cached == IF c # Active THEN manager ELSE [manager EXCEPT !.title = "by user"]
           now == Stage(renamed, cached, NoJournal)
<1>2. Perform(c, <<Directly(c, manager), now>>)
  BY <1>1
<1>3. Titled(disk[c]) /\ Attached(manager)
  BY DEF TitleInv
<1>4. Titled(renamed)
  BY <1>3 DEF Titled
<1>5. /\ Attached(cached)
      /\ cached.conversation = manager.conversation
      /\ cached.conversation = c => cached.title = "by user"
      /\ cached.conversation # c => cached = manager
  BY <1>3 DEF Attached, Active
<1> HIDE DEF renamed, cached
<1>6. SafeAt(c, now)
  BY <1>4, <1>5, SafeParts
<1> HIDE DEF now
<1>7. SafeAt(c, Directly(c, manager))
  BY <1>3, DirectlySafe
<1> QED
  BY <1>2, <1>6, <1>7, SafeTwo, PerformKeeps

(* A conversation is deleted.                                              *)
LEMMA DeleteConversationKeeps ==
    ASSUME TitleInv, DeleteConversation
    PROVE  TitleInv'
<1>1. manager.run = NoRun
  BY DEF DeleteConversation
<1>2. PICK c \in Conversations :
        LET gone == IF c # Active THEN manager
                    ELSE [manager EXCEPT !.conversation = NoConversation, !.title = ""]
        IN  Perform(c, <<Directly(c, manager), Stage(EmptyDirectory, gone, NoJournal)>>)
  BY DEF DeleteConversation
<1> DEFINE gone == IF c # Active THEN manager
                   ELSE [manager EXCEPT !.conversation = NoConversation, !.title = ""]
           now == Stage(EmptyDirectory, gone, NoJournal)
<1>3. Perform(c, <<Directly(c, manager), now>>)
  BY <1>2
<1>4. Titled(EmptyDirectory) /\ ~EmptyDirectory.renamed
  BY DEF Titled, EmptyDirectory
<1>5. Attached(manager)
  BY DEF TitleInv
<1>6. Attached(gone) /\ (gone = manager \/ gone.conversation = NoConversation)
  BY <1>1, <1>5 DEF Attached
<1> HIDE DEF gone
<1>7. SafeAt(c, now)
  BY <1>4, <1>6, SafeParts
<1> HIDE DEF now
<1>8. SafeAt(c, Directly(c, manager))
  BY <1>5, DirectlySafe
<1> QED
  BY <1>3, <1>7, <1>8, SafeTwo, PerformKeeps

(* A run begins: the conversation is loaded again.                         *)
LEMMA BeginRunKeeps ==
    ASSUME TitleInv, BeginRun
    PROVE  TitleInv'
<1>1. Active \in Conversations /\ Active # NoConversation
  BY DEF BeginRun, TitleInv, Attached, Active
<1>2. PICK r \in Runs :
        LET s == Directly(Active, SetActiveWorkspace(Active))
            begun == [s.manager EXCEPT !.activeRuns = {r}, !.run = r]
        IN  Perform(Active, <<s, Ensure(s), [Ensure(s) EXCEPT !.manager = begun]>>)
  BY DEF BeginRun
<1> DEFINE s == Directly(Active, SetActiveWorkspace(Active))
           begun == [s.manager EXCEPT !.activeRuns = {r}, !.run = r]
           e == Ensure(s)
           last == [e EXCEPT !.manager = begun]
<1>3. Perform(Active, <<s, e, last>>)
  BY <1>2
<1>4. SafeHere(Active, s)
  BY <1>1, WorkspaceSafe
<1> HIDE DEF s
<1>5. SafeHere(Active, e) /\ e.manager = s.manager
  BY <1>4, EnsureIsSafe
<1>6. last.dir = e.dir /\ last.manager = begun
  BY DEF Ensure, Stage
<1> HIDE DEF e, last
<1>7. /\ DOMAIN begun = DOMAIN s.manager
      /\ begun.conversation = Active
      /\ begun.title = s.manager.title
      /\ begun.run = r /\ begun.restored = s.manager.restored
      /\ begun.compacting = s.manager.compacting
  BY <1>4 DEF SafeHere, SafeAt, Attached
<1> HIDE DEF begun
<1>8. Attached(begun)
  <2>1. Attached(s.manager) /\ r # NoRun /\ Active # NoConversation
    BY <1>1, <1>4, ContextAssumption DEF SafeHere, SafeAt
  <2> QED
    BY <1>1, <1>7, <2>1 DEF Attached
<1>9. SafeAt(Active, last)
  BY <1>5, <1>6, <1>7, <1>8 DEF SafeHere, SafeAt
<1> QED
  BY <1>1, <1>3, <1>4, <1>5, <1>9, SafeThree, PerformKeeps DEF SafeHere

(* A message is stored, and the summary refreshed.                         *)
LEMMA AppendMessageKeeps ==
    ASSUME TitleInv, AppendMessage
    PROVE  TitleInv'
<1>1. Active \in Conversations
  BY DEF AppendMessage, TitleInv, Attached, Active
<1>2. PICK kind \in MessageKinds :
        LET next == IF manager.compacting THEN [manager EXCEPT !.seen = manager.prompt]
                    ELSE manager
            here == Directly(Active, next)
            s == Ensure(here)
            stored == IF "messages" \in s.dir.torn THEN <<>> ELSE StoreMessage(s, kind)
        IN  Perform(Active, <<here, s>> \o stored)
  BY DEF AppendMessage
<1> DEFINE next == IF manager.compacting THEN [manager EXCEPT !.seen = manager.prompt]
                   ELSE manager
           here == Directly(Active, next)
           s == Ensure(here)
           stored == IF "messages" \in s.dir.torn THEN <<>> ELSE StoreMessage(s, kind)
<1>3. Perform(Active, <<here, s>> \o stored)
  BY <1>2
<1>4. SafeHere(Active, here)
  <2>1. /\ DOMAIN next = DOMAIN manager
        /\ next.conversation = manager.conversation /\ next.title = manager.title
        /\ next.run = manager.run /\ next.compacting = manager.compacting
        /\ next.restored = manager.restored
    BY DEF TitleInv, Attached
  <2> HIDE DEF next
  <2>2. Attached(next)
    BY <2>1 DEF TitleInv, Attached
  <2> QED
    BY <1>1, <2>1, <2>2, DirectlySafe DEF Active
<1> HIDE DEF here
<1>5. SafeHere(Active, s)
  BY <1>4, EnsureIsSafe
<1> HIDE DEF s
<1>6. AllSafe(Active, stored)
  BY <1>5, MessageIsSafe, SafeNone
<1> HIDE DEF stored
<1>7. AllSafe(Active, <<here, s>>)
  BY <1>4, <1>5, SafeTwo DEF SafeHere
<1>8. <<here, s>> \o stored # <<>>
  BY <1>6, FirstOfTwo DEF AllSafe
<1> QED
  BY <1>1, <1>3, <1>6, <1>7, <1>8, SafeInARow, PerformKeeps

(* The manager changes, and nothing on disk.                               *)
LEMMA ManagerKeeps ==
    ASSUME TitleInv, NEW m, Attached(m), manager' = m, disk' = disk,
           \/ m.conversation = NoConversation
           \/ m.conversation = manager.conversation /\ m.title = manager.title
    PROVE  TitleInv'
<1>1. \A c \in Conversations : c # NoConversation
  BY ContextAssumption
<1>2. CacheAgrees'
  BY <1>1 DEF TitleInv, CacheAgrees
<1>3. Attached(manager)'
  BY DEF Attached
<1> QED
  BY <1>2, <1>3 DEF TitleInv, Titled

(* A run builds its messages.                                              *)
LEMMA RestoreContextKeeps ==
    ASSUME TitleInv, RestoreContext
    PROVE  TitleInv'
<1> DEFINE told == Prompt(disk[Active])
           m == [manager EXCEPT !.restored = TRUE, !.prompt = told]
<1>1. manager' = m /\ disk' = disk /\ manager.run # NoRun
  BY DEF RestoreContext
<1> HIDE DEF told
<1>2. /\ DOMAIN m = DOMAIN manager
      /\ m.conversation = manager.conversation /\ m.title = manager.title
      /\ m.run = manager.run /\ m.restored = TRUE
  BY DEF TitleInv, Attached
<1> HIDE DEF m
<1>3. Attached(m)
  BY <1>1, <1>2 DEF TitleInv, Attached
<1> QED
  BY <1>1, <1>2, <1>3, ManagerKeeps

(* A compaction is requested.                                              *)
LEMMA RequestCompactionKeeps ==
    ASSUME TitleInv, RequestCompaction
    PROVE  TitleInv'
<1> DEFINE seen == Prompt(disk[Active])
           m == [manager EXCEPT !.compacting = TRUE, !.seen = seen]
<1>1. manager' = m /\ disk' = disk /\ manager.restored /\ manager.run # NoRun
  BY DEF RequestCompaction, TitleInv, Attached
<1> HIDE DEF seen
<1>2. /\ DOMAIN m = DOMAIN manager
      /\ m.conversation = manager.conversation /\ m.title = manager.title
      /\ m.run = manager.run /\ m.restored = manager.restored /\ manager.restored
  BY <1>1 DEF TitleInv, Attached
<1> HIDE DEF m
<1>3. Attached(m)
  BY <1>1, <1>2 DEF TitleInv, Attached
<1> QED
  BY <1>1, <1>2, <1>3, ManagerKeeps

(* Its reply is stored as a summary.                                       *)
LEMMA AppendCompactionSummaryKeeps ==
    ASSUME TitleInv, AppendCompactionSummary
    PROVE  TitleInv'
<1>1. Active \in Conversations
  BY DEF AppendCompactionSummary, TitleInv, Attached, Active
<1> DEFINE m == [manager EXCEPT !.compacting = FALSE, !.seen = {}]
           here == Directly(Active, m)
           summary == CompactionSummary(disk[Active], manager.seen)
           written == AddSummary(Ensure(here), summary)
           added == IF PromptReadable(disk[Active])
                    THEN written \o <<Rebuild(Last(written))>> ELSE <<>>
<1>2. Perform(Active, <<here, Ensure(here)>> \o added)
  BY DEF AppendCompactionSummary
<1>3. /\ DOMAIN m = DOMAIN manager
      /\ m.conversation = manager.conversation /\ m.title = manager.title
      /\ m.run = manager.run /\ m.compacting = FALSE
      /\ m.restored = manager.restored
  BY DEF TitleInv, Attached
<1> HIDE DEF m, summary
<1>4. Attached(m)
  BY <1>3 DEF TitleInv, Attached
<1>5. SafeHere(Active, here)
  BY <1>1, <1>3, <1>4, DirectlySafe DEF Active
<1> HIDE DEF here
<1>6. SafeHere(Active, Ensure(here))
  BY <1>5, EnsureIsSafe
<1>7. AllSafe(Active, added)
  <2>1. AllSafe(Active, written)
    BY <1>6, SummaryIsSafe
  <2>2. SafeHere(Active, Last(written))
    BY <1>6, SummaryIsHere
  <2> HIDE DEF written
  <2>3. SafeHere(Active, Rebuild(Last(written)))
    BY <2>2, RebuildIsSafe
  <2> QED
    BY <2>1, <2>3, SafeOne, SafeInARow, SafeNone DEF SafeHere
<1> HIDE DEF added
<1>8. AllSafe(Active, <<here, Ensure(here)>>)
  BY <1>5, <1>6, SafeTwo DEF SafeHere
<1>9. <<here, Ensure(here)>> \o added # <<>>
  BY <1>7, FirstOfTwo DEF AllSafe
<1> QED
  BY <1>1, <1>2, <1>7, <1>8, <1>9, SafeInARow, PerformKeeps

(* A run ends.                                                             *)
LEMMA FinishRunKeeps ==
    ASSUME TitleInv, FinishRun
    PROVE  TitleInv'
<1> DEFINE left == manager.activeRuns \ {manager.run}
           over == [manager EXCEPT !.run = NoRun, !.restored = FALSE, !.prompt = {},
                                   !.compacting = FALSE, !.seen = {}]
           dropped == [over EXCEPT !.activeRuns = left]
<1>1. manager' \in {over, dropped} /\ disk' = disk
  BY DEF FinishRun
<1> HIDE DEF left
<1>2. /\ DOMAIN over = DOMAIN manager
      /\ over.conversation = manager.conversation /\ over.title = manager.title
      /\ over.restored = FALSE /\ over.compacting = FALSE
      /\ over.run = NoRun
  BY DEF TitleInv, Attached
<1> HIDE DEF over
<1>3. /\ DOMAIN dropped = DOMAIN over
      /\ dropped.conversation = over.conversation /\ dropped.title = over.title
      /\ dropped.restored = FALSE /\ dropped.compacting = FALSE
      /\ dropped.run = NoRun
  BY <1>2 DEF TitleInv, Attached
<1> HIDE DEF dropped
<1>4. Attached(over) /\ Attached(dropped)
  BY <1>2, <1>3 DEF TitleInv, Attached
<1> QED
  BY <1>1, <1>2, <1>3, <1>4, ManagerKeeps

(* The program ends, and loses the cache.                                  *)
LEMMA QuitKeeps ==
    ASSUME TitleInv, Quit
    PROVE  TitleInv'
<1>1. manager' = AtRest /\ disk' = disk /\ AtRest.conversation = NoConversation
  BY DEF Quit, AtRest
<1> QED
  BY <1>1, RestIsAttached, ManagerKeeps

-----------------------------------------------------------------------------
(* Nothing is stored and nothing cached.                                   *)
LEMMA InitTitles ==
    ASSUME ContextInit
    PROVE  TitleInv
<1>1. Titled(EmptyDirectory) /\ ~EmptyDirectory.renamed
  BY DEF Titled, EmptyDirectory
<1>2. DOMAIN disk = Conversations /\ \A c \in Conversations : disk[c] = EmptyDirectory
  BY DEF ContextInit
<1>3. manager = AtRest
  BY DEF ContextInit
<1> QED
  BY <1>1, <1>2, <1>3, RestIsAttached DEF TitleInv, CacheAgrees

-----------------------------------------------------------------------------
(* Least and greatest numbers, and recursion.                              *)

(* A set of numbers has a least one.                                       *)
LEMMA LeastNumber ==
    ASSUME NEW T, T \subseteq Nat, T # {}
    PROVE  \E m \in T : \A k \in T : m <= k
<1>1. PICK m \in T : \A k \in T : <<k, m>> \notin OpToRel(<, Nat)
  BY WFMin, NatLessThanWellFounded, Zenon
<1>2. \A k \in T : ~(k < m)
  BY <1>1, Zenon DEF OpToRel
<1> QED
  BY <1>2

(* It is the one that Min returns.                                         *)
LEMMA MinNumber ==
    ASSUME NEW T, T \subseteq Nat, T # {}
    PROVE  Min(T) \in T /\ \A x \in T : Min(T) <= x
BY LeastNumber DEF Min

(* The greatest of some numbers up to n.                                   *)
LEMMA MaxNumber ==
    ASSUME NEW n \in Nat, NEW s \in SUBSET (0..n), s # {}
    PROVE  Max(s) \in s /\ \A x \in s : x <= Max(s)
<1> DEFINE T == {k \in Nat : \E x \in s : k = n - x}
<1>1. T \subseteq Nat /\ T # {}
  <2>1. PICK x \in s : TRUE
    OBVIOUS
  <2>2. n - x \in T
    OBVIOUS
  <2> QED
    BY <2>2
<1>2. PICK m \in T : \A k \in T : m <= k
  <2> HIDE DEF T
  <2> QED
    BY <1>1, LeastNumber
<1>3. PICK x \in s : m = n - x
  BY <1>2
<1>4. \A y \in s : x >= y
  <2> SUFFICES ASSUME NEW y \in s PROVE x >= y
    OBVIOUS
  <2>1. n - y \in T
    OBVIOUS
  <2>2. n - x <= n - y
    BY <1>2, <1>3, <2>1
  <2> QED
    BY <2>2
<1> QED
  BY <1>4 DEF Max

(* g goes from base, step by step, to n.                                   *)
Steps(g, n, base, step) ==
    g = [k \in 0..n |-> IF k = 0 THEN base ELSE step[<<g[k - 1], k>>]]

(* There is one that does.                                                 *)
LEMMA StepsExist ==
    ASSUME NEW n \in Nat, NEW X, NEW base \in X, NEW step \in [X \X (1..n) -> X]
    PROVE  \E g \in [0..n -> X] : Steps(g, n, base, step)
<1> DEFINE next(g) == [k \in 0..n |-> IF k = 0 THEN base ELSE step[<<g[k - 1], k>>]]
           Upto(k) == \E g \in [0..n -> X] : \A i \in 0..n : i < k => g[i] = next(g)[i]
           T == {k \in Nat : ~Upto(k)}
<1>1. ASSUME NEW g \in [0..n -> X] PROVE next(g) \in [0..n -> X]
  <2> SUFFICES ASSUME NEW k \in 0..n, k # 0 PROVE step[<<g[k - 1], k>>] \in X
    OBVIOUS
  <2>1. k \in 1..n /\ k - 1 \in 0..n
    OBVIOUS
  <2>2. g[k - 1] \in X
    BY <2>1
  <2> QED
    BY <2>1, <2>2
<1>2. ASSUME NEW k \in Nat, Upto(k) PROVE Upto(k + 1)
  <2>1. PICK g \in [0..n -> X] : \A i \in 0..n : i < k => g[i] = next(g)[i]
    BY <1>2
  <2> DEFINE m == next(g)
  <2>2. ASSUME NEW i \in 0..n, i < k + 1 PROVE m[i] = next(m)[i]
    <3>1. CASE i = 0
      BY <3>1
    <3>2. CASE i # 0
      <4>1. i - 1 \in 0..n /\ i - 1 < k
        BY <2>2, <3>2
      <4> HIDE DEF next
      <4>2. g[i - 1] = m[i - 1]
        BY <2>1, <4>1
      <4> QED
        BY <3>2, <4>2 DEF next
    <3> QED
      BY <3>1, <3>2
  <2> HIDE DEF next
  <2> QED
    BY <1>1, <2>2
<1>3. Upto(0)
  <2> DEFINE g == [k \in 0..n |-> base]
  <2>1. g \in [0..n -> X]
    OBVIOUS
  <2>2. \A i \in 0..n : i < 0 => g[i] = next(g)[i]
    OBVIOUS
  <2> HIDE DEF next, g
  <2> QED
    BY <2>1, <2>2
<1>4. T = {}
  <2> SUFFICES ASSUME T # {} PROVE FALSE
    OBVIOUS
  <2> HIDE DEF Upto
  <2>1. PICK m \in T : \A k \in T : m <= k
    BY LeastNumber
  <2>2. m # 0
    BY <1>3, <2>1
  <2>3. m - 1 \in Nat /\ m - 1 \notin T
    BY <2>1, <2>2
  <2> QED
    BY <1>2, <2>1, <2>3
<1>5. Upto(n + 1)
  <2> HIDE DEF Upto
  <2> QED
    BY <1>4
<1>6. PICK g \in [0..n -> X] : \A i \in 0..n : g[i] = next(g)[i]
  <2>1. \A i \in 0..n : i < n + 1
    OBVIOUS
  <2> HIDE DEF next
  <2> QED
    BY <1>5, <2>1
<1>7. g = next(g)
  <2> DEFINE m == next(g)
  <2>1. m \in [0..n -> X] /\ \A i \in 0..n : g[i] = m[i]
    BY <1>1, <1>6
  <2> HIDE DEF m
  <2>2. g = m
    BY <2>1
  <2> QED
    BY <2>2 DEF m
<1> QED
  BY <1>7 DEF Steps

-----------------------------------------------------------------------------
(* Reading a directory.                                                    *)

(* The tokens are counted message by message.                              *)
LEMMA TokensSteps ==
    ASSUME NEW d \in Directory
    PROVE  /\ Tokens(d) \in [0..Len(d.messages) -> Nat]
           /\ Tokens(d)[0] = 0
           /\ \A n \in 1..Len(d.messages) :
                 Tokens(d)[n] = IF n \in Unsummarized(d)
                                THEN Tokens(d)[n - 1] + d.messages[n].tokens
                                ELSE Tokens(d)[n - 1]
<1> DEFINE N == Len(d.messages)
           rest == Unsummarized(d)
           Solves(f) == f = [n \in 0..N |->
                               IF n = 0 THEN 0
                               ELSE IF n \in rest THEN f[n - 1] + d.messages[n].tokens
                               ELSE f[n - 1]]
           f == CHOOSE f : Solves(f)
<1>1. Tokens(d) = f
  BY DEF Tokens
<1>2. N \in Nat /\ \A n \in 1..N : d.messages[n].tokens \in Nat
  <2>1. d.messages \in Seq(Message)
    BY DEF Directory
  <2>2. \A n \in 1..N : d.messages[n] \in Message
    BY <2>1
  <2> QED
    BY <2>1, <2>2 DEF Message
<1> HIDE DEF rest
<1>3. \E g : Solves(g)
  <2> DEFINE step == [p \in Nat \X (1..N) |-> IF p[2] \in rest THEN p[1] + d.messages[p[2]].tokens
                                              ELSE p[1]]
  <2>1. step \in [Nat \X (1..N) -> Nat]
    BY <1>2
  <2>2. PICK g \in [0..N -> Nat] : Steps(g, N, 0, step)
    <3> HIDE DEF step, N
    <3> QED
      BY <1>2, <2>1, StepsExist
  <2>3. ASSUME NEW n \in 0..N, n # 0
        PROVE  g[n] = IF n \in rest THEN g[n - 1] + d.messages[n].tokens ELSE g[n - 1]
    <3>1. n \in 1..N /\ n - 1 \in 0..N
      BY <1>2, <2>3
    <3>2. g[n - 1] \in Nat /\ g[n] = step[<<g[n - 1], n>>]
      BY <2>2, <2>3, <3>1 DEF Steps
    <3> QED
      BY <3>1, <3>2
  <2>4. g[0] = 0 /\ 0 \in 0..N
    BY <1>2, <2>2 DEF Steps
  <2>5. Solves(g)
    <3> HIDE DEF N
    <3> QED
      BY <2>3, <2>4
  <2> QED
    BY <2>5
<1>4. Solves(f)
  <2> HIDE DEF Solves
  <2> QED
    BY <1>3, Zenon
<1> HIDE DEF f
<1>5. f[0] = 0
  BY <1>2, <1>4
<1>6. \A n \in 1..N : f[n] = IF n \in rest THEN f[n - 1] + d.messages[n].tokens ELSE f[n - 1]
  <2>1. \A n \in 1..N : n \in 0..N /\ n # 0
    BY <1>2
  <2> HIDE DEF N
  <2> QED
    BY <1>4, <2>1
<1>7. \A n \in 0..N : f[n] \in Nat
  <2> DEFINE T == {n \in 0..N : f[n] \notin Nat}
  <2> SUFFICES ASSUME T # {} PROVE FALSE
    OBVIOUS
  <2>1. PICK m \in T : \A k \in T : m <= k
    <3>1. T \subseteq Nat
      BY <1>2
    <3> HIDE DEF T
    <3> QED
      BY <3>1, LeastNumber
  <2>2. m \in 1..N /\ m - 1 \in 0..N
    BY <1>2, <1>5, <2>1
  <2>3. f[m - 1] \in Nat
    BY <1>2, <2>1, <2>2
  <2>4. f[m] \in Nat
    <3> HIDE DEF T, N
    <3>1. CASE m \in rest
      BY <1>2, <1>6, <2>2, <2>3, <3>1
    <3>2. CASE m \notin rest
      BY <1>6, <2>2, <2>3, <3>2
    <3> QED
      BY <3>1, <3>2
  <2> QED
    BY <2>1, <2>4
<1>8. f \in [0..N -> Nat]
  <2> HIDE DEF N
  <2> QED
    BY <1>4, <1>7
<1> QED
  BY <1>1, <1>5, <1>6, <1>8 DEF rest

-----------------------------------------------------------------------------
(* The window of recent messages.                                          *)

(* What select_recent_messages holds after each message.                   *)
Picks == [selected : SUBSET Numbers, used : Nat]

(* One message, from the newest.                                           *)
Take(d, s, m) ==
    IF /\ m.sequence > LatestSummary(d).end
       /\ m.prompt
       /\ Cardinality(s.selected) < WindowMessages
       /\ s.used + m.tokens <= WindowTokens \/ s.selected = {}
    THEN [selected |-> s.selected \cup {m.sequence}, used |-> s.used + m.tokens]
    ELSE s

(* How many messages it looks at.                                          *)
Recent(d) == Min({Len(d.messages), 2 * WindowMessages})

(* v goes from the newest message to the oldest one it looks at.           *)
Reads(v, d) ==
    /\ v \in [0..Recent(d) -> Picks]
    /\ v[0] = [selected |-> {}, used |-> 0]
    /\ \A n \in 1..Recent(d) : v[n] = Take(d, v[n - 1], d.messages[Len(d.messages) - n + 1])
    /\ RecentMessages(d) = v[Recent(d)].selected

(* The number of messages it looks at.                                     *)
LEMMA RecentNumber ==
    ASSUME NEW d \in Directory
    PROVE  /\ Len(d.messages) \in Nat /\ Recent(d) \in Nat
           /\ \/ Recent(d) = Len(d.messages)
              \/ Recent(d) = 2 * WindowMessages /\ Recent(d) <= Len(d.messages)
           /\ \A i \in 1..Len(d.messages) : d.messages[i] \in Message
<1>1. d.messages \in Seq(Message)
  BY DEF Directory
<1>2. Len(d.messages) \in Nat /\ \A i \in 1..Len(d.messages) : d.messages[i] \in Message
  BY <1>1
<1>3. 2 * WindowMessages \in Nat
  BY ContextAssumption
<1>4. {Len(d.messages), 2 * WindowMessages} \subseteq Nat
  BY <1>2, <1>3
<1> DEFINE T == {Len(d.messages), 2 * WindowMessages}
<1>5. T \subseteq Nat /\ T # {}
  BY <1>4
<1>6. Min(T) \in T /\ \A x \in T : Min(T) <= x
  <2> HIDE DEF T
  <2> QED
    BY <1>5, MinNumber
<1> QED
  BY <1>2, <1>3, <1>6 DEF Recent

(* A message looked at.                                                    *)
LEMMA TakeType ==
    ASSUME NEW d, NEW s \in Picks, NEW m \in Message
    PROVE  Take(d, s, m) \in Picks
<1>1. m.sequence \in Numbers /\ m.tokens \in Nat
  BY DEF Message
<1>2. s.selected \cup {m.sequence} \in SUBSET Numbers /\ s.used + m.tokens \in Nat
  BY <1>1 DEF Picks
<1> QED
  BY <1>2 DEF Take, Picks

(* select_recent_messages looks at one message after the other.            *)
LEMMA ReadsExist ==
    ASSUME NEW d \in Directory
    PROVE  \E v : Reads(v, d)
<1> DEFINE N == Recent(d)
           count == Len(d.messages)
           base == [selected |-> {}, used |-> 0]
           Solves(f) == f = [n \in 0..N |->
                               IF n = 0 THEN base
                               ELSE Take(d, f[n - 1], d.messages[count - n + 1])]
           f == CHOOSE f : Solves(f)
<1>1. RecentMessages(d) = f[N].selected
  BY DEF RecentMessages, Recent, Take
<1>2. N \in Nat /\ \A n \in 1..N : d.messages[count - n + 1] \in Message
  <2>1. count \in Nat /\ N \in Nat /\ N <= count
    BY RecentNumber
  <2>2. \A n \in 1..N : count - n + 1 \in 1..count
    BY <2>1
  <2> QED
    BY <2>1, <2>2, RecentNumber
<1> HIDE DEF N, count
<1>3. \E g : Solves(g)
  <2> DEFINE step == [p \in Picks \X (1..N) |-> Take(d, p[1], d.messages[count - p[2] + 1])]
  <2>1. step \in [Picks \X (1..N) -> Picks]
    <3> SUFFICES ASSUME NEW p \in Picks \X (1..N)
                 PROVE  Take(d, p[1], d.messages[count - p[2] + 1]) \in Picks
      OBVIOUS
    <3>1. p[1] \in Picks /\ p[2] \in 1..N
      OBVIOUS
    <3>2. d.messages[count - p[2] + 1] \in Message
      BY <1>2, <3>1
    <3> QED
      BY <3>1, <3>2, TakeType
  <2>2. base \in Picks
    BY DEF Picks
  <2>3. PICK g \in [0..N -> Picks] : Steps(g, N, base, step)
    <3> HIDE DEF step, base
    <3> QED
      BY <1>2, <2>1, <2>2, StepsExist
  <2>4. ASSUME NEW n \in 0..N, n # 0
        PROVE  g[n] = Take(d, g[n - 1], d.messages[count - n + 1])
    <3>1. n \in 1..N /\ n - 1 \in 0..N
      BY <1>2, <2>4
    <3>2. g[n - 1] \in Picks /\ g[n] = step[<<g[n - 1], n>>]
      BY <2>3, <2>4, <3>1 DEF Steps
    <3> QED
      BY <3>1, <3>2
  <2>5. g[0] = base
    BY <1>2, <2>3 DEF Steps
  <2>6. Solves(g)
    BY <2>3, <2>4, <2>5
  <2> QED
    BY <2>6
<1>4. Solves(f)
  <2> HIDE DEF Solves
  <2> QED
    BY <1>3, Zenon
<1> HIDE DEF f
<1>5. f[0] = base
  <2>1. 0 \in 0..N
    BY <1>2
  <2> HIDE DEF base
  <2> QED
    BY <1>4, <2>1
<1>6. \A n \in 1..N : f[n] = Take(d, f[n - 1], d.messages[count - n + 1])
  <2>1. \A n \in 1..N : n \in 0..N /\ n # 0
    BY <1>2
  <2> HIDE DEF base
  <2> QED
    BY <1>4, <2>1
<1>7. \A n \in 0..N : f[n] \in Picks
  <2> DEFINE T == {n \in 0..N : f[n] \notin Picks}
  <2> SUFFICES ASSUME T # {} PROVE FALSE
    OBVIOUS
  <2>1. PICK m \in T : \A k \in T : m <= k
    <3>1. T \subseteq Nat
      BY <1>2
    <3> HIDE DEF T
    <3> QED
      BY <3>1, LeastNumber
  <2>2. f[0] \in Picks
    BY <1>5 DEF Picks
  <2>3. m \in 1..N /\ m - 1 \in 0..N
    BY <1>2, <2>1, <2>2
  <2>4. f[m - 1] \in Picks
    BY <1>2, <2>1, <2>3
  <2>5. f[m] \in Picks
    BY <1>2, <1>6, <2>3, <2>4, TakeType
  <2> QED
    BY <2>1, <2>5
<1>8. f \in [0..N -> Picks]
  BY <1>4, <1>7
<1> QED
  BY <1>1, <1>5, <1>6, <1>8 DEF Reads, N, count

-----------------------------------------------------------------------------
(* A directory as its journals describe it.                                *)

(* The end of the latest summary.                                          *)
Edge(d) == LatestSummary(d).end

(* All summaries there are.                                                *)
Stored(d) == ToSet(d.summaries) \cup {d.latest}

(* Messages are numbered as they are stored, and of the kinds there are;   *)
(* summaries are not of more than there is, nor is their version more than *)
(* their number.                                                           *)
Numbered(d) ==
    /\ d \in Directory
    /\ \A i \in DOMAIN d.messages :
          /\ d.messages[i].sequence = i
          /\ \E kind \in MessageKinds : d.messages[i].tokens = kind.tokens
    /\ \A s \in Stored(d) : s.version <= Len(d.summaries) /\ s.end <= Len(d.messages)

(* What the sequences in a directory hold.                                 *)
LEMMA DirectoryParts ==
    ASSUME NEW d \in Directory
    PROVE  /\ d.messages \in Seq(Message) /\ d.summaries \in Seq(Summary) /\ d.latest \in Summary
           /\ Len(d.messages) \in Nat /\ Len(d.summaries) \in Nat
           /\ DOMAIN d.messages = 1..Len(d.messages)
           /\ DOMAIN d.summaries = 1..Len(d.summaries)
           /\ \A i \in 1..Len(d.messages) :
                 /\ d.messages[i] \in Message
                 /\ d.messages[i].sequence \in Numbers
                 /\ d.messages[i].tokens \in Nat
           /\ \A i \in 1..Len(d.summaries) : d.summaries[i] \in Summary
<1>1. d.messages \in Seq(Message) /\ d.summaries \in Seq(Summary) /\ d.latest \in Summary
  BY DEF Directory
<1>2. /\ \A i \in 1..Len(d.messages) : d.messages[i] \in Message
      /\ \A i \in 1..Len(d.summaries) : d.summaries[i] \in Summary
  BY <1>1
<1>3. \A m \in Message : m.sequence \in Numbers /\ m.tokens \in Nat
  BY DEF Message
<1> QED
  BY <1>1, <1>2, <1>3

(* A summary's parts.                                                      *)
LEMMA SummaryParts ==
    ASSUME NEW s \in Summary
    PROVE  /\ s.version \in Nat /\ s.end \in Nat /\ s.end <= MaxMessages
           /\ s.content \subseteq Numbers
BY ContextAssumption DEF Summary

(* A conversation is not longer than its bound.                            *)
LEMMA FewMessages ==
    ASSUME NEW d, Numbered(d)
    PROVE  Len(d.messages) <= MaxMessages
<1>1. Len(d.messages) \in Nat /\ DOMAIN d.messages = 1..Len(d.messages)
  BY DirectoryParts DEF Numbered
<1>2. CASE Len(d.messages) = 0
  BY <1>2, ContextAssumption
<1>3. CASE Len(d.messages) # 0
  <2>1. Len(d.messages) \in 1..Len(d.messages)
    BY <1>1, <1>3
  <2>2. d.messages[Len(d.messages)].sequence \in Numbers
    BY <2>1, DirectoryParts DEF Numbered
  <2>3. d.messages[Len(d.messages)].sequence = Len(d.messages)
    BY <1>1, <2>1 DEF Numbered
  <2> QED
    BY <2>2, <2>3, ContextAssumption DEF Numbers
<1> QED
  BY <1>2, <1>3

(* The next message gets the next number.                                  *)
LEMMA LatestSequenceIs ==
    ASSUME NEW d, Numbered(d)
    PROVE  LatestSequence(d) = Len(d.messages)
<1> DEFINE N == Len(d.messages)
           S == {0} \cup {d.messages[i].sequence : i \in DOMAIN d.messages}
<1>1. N \in Nat /\ DOMAIN d.messages = 1..N
  BY DirectoryParts DEF Numbered
<1>2. S = 0..N
  <2>1. \A i \in 1..N : d.messages[i].sequence = i
    BY <1>1 DEF Numbered
  <2>2. \A x \in 0..N : x = 0 \/ x \in 1..N
    BY <1>1
  <2>3. S = {0} \cup {i : i \in 1..N}
    BY <1>1, <2>1
  <2> QED
    BY <1>1, <2>2, <2>3
<1> HIDE DEF S
<1>3. S \in SUBSET (0..N) /\ S # {} /\ N \in S
  BY <1>1, <1>2
<1>4. Max(S) \in S /\ \A x \in S : x <= Max(S)
  BY <1>1, <1>3, MaxNumber
<1>5. Max(S) = N
  BY <1>1, <1>2, <1>3, <1>4
<1> QED
  BY <1>5 DEF LatestSequence, S

(* The latest summary is a stored one: that of the state file, or one of   *)
(* the greatest version in the journal.                                    *)
LEMMA LatestIs ==
    ASSUME NEW d, Numbered(d)
    PROVE  /\ LatestSummary(d) \in Stored(d) /\ LatestSummary(d) \in Summary
           /\ d.latest # NoSummary => LatestSummary(d) = d.latest
           /\ d.latest = NoSummary =>
                 \A i \in DOMAIN d.summaries :
                    d.summaries[i].version <= LatestSummary(d).version
<1>1. /\ d.latest \in Summary /\ Len(d.summaries) \in Nat
      /\ DOMAIN d.summaries = 1..Len(d.summaries)
      /\ \A i \in 1..Len(d.summaries) : d.summaries[i] \in Summary
  BY DirectoryParts DEF Numbered
<1>2. CASE d.latest # NoSummary
  BY <1>1, <1>2 DEF LatestSummary, Stored
<1>3. CASE d.latest = NoSummary /\ d.summaries = <<>>
  <2>1. LatestSummary(d) = d.latest
    BY <1>3 DEF LatestSummary
  <2>2. DOMAIN d.summaries = {}
    BY <1>1, <1>3
  <2> QED
    BY <1>1, <1>3, <2>1, <2>2 DEF Stored
<1>4. CASE d.latest = NoSummary /\ d.summaries # <<>>
  <2> DEFINE D == DOMAIN d.summaries
             V == {d.summaries[i].version : i \in D}
             best == {i \in D : \A j \in D : d.summaries[j].version <= d.summaries[i].version}
  <2>1. \A i \in D : d.summaries[i].version \in 0..Len(d.summaries)
    <3> SUFFICES ASSUME NEW i \in D PROVE d.summaries[i].version \in 0..Len(d.summaries)
      OBVIOUS
    <3>1. d.summaries[i] \in Stored(d) /\ d.summaries[i] \in Summary
      BY <1>1 DEF Stored, ToSet
    <3> QED
      BY <1>1, <3>1, SummaryParts DEF Numbered
  <2>2. V # {}
    <3>1. d.summaries \in Seq(Summary)
      BY DirectoryParts DEF Numbered
    <3>2. Len(d.summaries) # 0
      BY <1>4, <3>1
    <3>3. 1 \in D
      BY <1>1, <3>2
    <3> QED
      BY <3>3
  <2>3. V \in SUBSET (0..Len(d.summaries))
    BY <2>1
  <2>4. Max(V) \in V /\ \A x \in V : x <= Max(V)
    <3> HIDE DEF V
    <3> QED
      BY <1>1, <2>2, <2>3, MaxNumber
  <2>5. best # {}
    BY <2>4
  <2>6. best \subseteq Nat
    BY <1>1
  <2>7. Min(best) \in best
    <3> HIDE DEF best
    <3> QED
      BY <2>5, <2>6, MinNumber
  <2>8. LatestSummary(d) = d.summaries[Min(best)]
    BY <1>4 DEF LatestSummary
  <2> HIDE DEF V
  <2>9. /\ Min(best) \in D
        /\ \A j \in D : d.summaries[j].version <= d.summaries[Min(best)].version
    BY <2>7
  <2> HIDE DEF best
  <2> QED
    BY <1>1, <1>4, <2>8, <2>9 DEF Stored, ToSet
<1> QED
  BY <1>2, <1>3, <1>4

(* The edge is within the conversation.                                    *)
LEMMA EdgeIs ==
    ASSUME NEW d, Numbered(d)
    PROVE  /\ Edge(d) \in 0..Len(d.messages) /\ Len(d.messages) \in Nat
           /\ LatestSummary(d).version \in Nat
           /\ LatestSummary(d).version <= Len(d.summaries)
           /\ LatestSummary(d).content \subseteq Numbers
<1>1. LatestSummary(d) \in Stored(d) /\ LatestSummary(d) \in Summary
  BY LatestIs
<1>2. Len(d.messages) \in Nat
  BY DirectoryParts DEF Numbered
<1> QED
  BY <1>1, <1>2, SummaryParts DEF Edge, Numbered

(* What is not summarised is what comes after the edge.                    *)
LEMMA UnsummarizedIs ==
    ASSUME NEW d, Numbered(d)
    PROVE  Unsummarized(d) = (Edge(d) + 1)..Len(d.messages)
<1>1. /\ Len(d.messages) \in Nat /\ DOMAIN d.messages = 1..Len(d.messages)
      /\ Edge(d) \in 0..Len(d.messages)
  BY EdgeIs, DirectoryParts DEF Numbered
<1>2. Unsummarized(d) = {i \in 1..Len(d.messages) : i > Edge(d)}
  BY <1>1 DEF Numbered, Unsummarized, Edge
<1> QED
  BY <1>1, <1>2

-----------------------------------------------------------------------------
(* Chunks.                                                                 *)

(* Of messages that are summarised, no tokens are counted.                 *)
LEMMA NoTokens ==
    ASSUME NEW d, Numbered(d)
    PROVE  \A n \in 0..Edge(d) : Tokens(d)[n] = 0
<1> DEFINE T == {n \in 0..Edge(d) : Tokens(d)[n] # 0}
<1> SUFFICES ASSUME T # {} PROVE FALSE
  OBVIOUS
<1>1. Edge(d) \in 0..Len(d.messages) /\ Len(d.messages) \in Nat
  BY EdgeIs
<1>2. PICK m \in T : \A k \in T : m <= k
  <2>1. T \subseteq Nat
    BY <1>1
  <2> HIDE DEF T
  <2> QED
    BY <2>1, LeastNumber
<1>3. Tokens(d)[0] = 0
  BY TokensSteps DEF Numbered
<1>4. m \in 1..Edge(d) /\ m - 1 \in 0..Edge(d) /\ m \in 1..Len(d.messages)
  BY <1>1, <1>2, <1>3
<1>5. Tokens(d)[m - 1] = 0
  BY <1>1, <1>2, <1>4
<1>6. m \notin Unsummarized(d)
  BY <1>1, <1>4, UnsummarizedIs
<1>7. Tokens(d)[m] = Tokens(d)[m - 1]
  BY <1>4, <1>6, TokensSteps DEF Numbered
<1> QED
  BY <1>2, <1>5, <1>7

(* After it, those of each message.                                        *)
LEMMA MoreTokens ==
    ASSUME NEW d, Numbered(d), NEW n \in (Edge(d) + 1)..Len(d.messages)
    PROVE  /\ n - 1 \in 0..Len(d.messages) /\ n \in 1..Len(d.messages)
           /\ Tokens(d)[n] = Tokens(d)[n - 1] + d.messages[n].tokens
           /\ Tokens(d)[n] \in Nat /\ Tokens(d)[n - 1] \in Nat
           /\ d.messages[n].tokens \in Nat
<1>1. Edge(d) \in 0..Len(d.messages) /\ Len(d.messages) \in Nat
  BY EdgeIs
<1>2. n \in 1..Len(d.messages) /\ n - 1 \in 0..Len(d.messages) /\ n \in 0..Len(d.messages)
  BY <1>1
<1>3. n \in Unsummarized(d)
  BY UnsummarizedIs
<1>4. Tokens(d)[n] \in Nat /\ Tokens(d)[n - 1] \in Nat
  BY <1>2, TokensSteps DEF Numbered
<1>5. d.messages[n].tokens \in Nat
  BY <1>2, DirectoryParts DEF Numbered
<1> QED
  BY <1>2, <1>3, <1>4, <1>5, TokensSteps DEF Numbered

(* There is something to summarise when a refresh is due.                  *)
LEMMA DueIsBehind ==
    ASSUME NEW d, Numbered(d), RefreshDue(d)
    PROVE  Edge(d) < Len(d.messages)
<1>1. Edge(d) \in 0..Len(d.messages) /\ Len(d.messages) \in Nat
  BY EdgeIs
<1>2. RefreshMessages \in Nat \ {0} /\ RefreshTokens \in Nat \ {0}
  BY ContextAssumption
<1> SUFFICES ASSUME Edge(d) = Len(d.messages) PROVE FALSE
  BY <1>1
<1>3. Unsummarized(d) = {}
  BY <1>1, UnsummarizedIs
<1>4. Cardinality(Unsummarized(d)) = 0
  BY <1>3, FS_EmptySet
<1>5. Tokens(d)[Len(d.messages)] = 0
  BY <1>1, NoTokens
<1> QED
  BY <1>2, <1>4, <1>5 DEF RefreshDue

(* What is summarised next follows on the edge, and is at least one        *)
(* message, and everything that fits.                                      *)
ChunkEnds(d, k) ==
    /\ k \in (Edge(d) + 1)..Len(d.messages)
    /\ Chunk(d) = (Edge(d) + 1)..k
    /\ Max(Chunk(d)) = k
    /\ \A a \in (Edge(d) + 1)..Len(d.messages) :
          /\ a - Edge(d) <= ChunkMessages
          /\ a = Edge(d) + 1 \/ Tokens(d)[a] <= ChunkTokens
          => a <= k

(* The chunk of a refresh that is due has an end.                          *)
LEMMA ChunkIs ==
    ASSUME NEW d, Numbered(d), RefreshDue(d)
    PROVE  \E k : ChunkEnds(d, k)
<1> DEFINE N == Len(d.messages)
           E == Edge(d)
           rest == Unsummarized(d)
           upTo(n) == {i \in rest : i <= n}
           fits == {n \in rest : /\ Cardinality(upTo(n)) <= ChunkMessages
                                 /\ upTo(n) = {n} \/ Tokens(d)[n] <= ChunkTokens}
           k == Max(fits)
<1>1. E \in 0..N /\ N \in Nat /\ E < N
  BY EdgeIs, DueIsBehind
<1>2. rest = (E + 1)..N
  BY UnsummarizedIs
<1>3. Chunk(d) = upTo(k)
  BY DEF Chunk
<1> HIDE DEF N, E, rest
<1>4. \A n \in rest : upTo(n) = (E + 1)..n /\ Cardinality(upTo(n)) = n - E
  <2> SUFFICES ASSUME NEW n \in rest PROVE upTo(n) = (E + 1)..n /\ Cardinality(upTo(n)) = n - E
    OBVIOUS
  <2>1. upTo(n) = (E + 1)..n
    BY <1>1, <1>2
  <2>2. E + 1 \in Int /\ n \in Int /\ E + 1 <= n
    BY <1>1, <1>2
  <2>3. Cardinality((E + 1)..n) = n - E
    BY <1>1, <2>2, FS_Interval
  <2> QED
    BY <2>1, <2>3
<1>5. \A n \in rest : upTo(n) = {n} <=> n = E + 1
  <2> SUFFICES ASSUME NEW n \in rest PROVE upTo(n) = {n} <=> n = E + 1
    OBVIOUS
  <2>1. upTo(n) = (E + 1)..n /\ n \in Nat /\ n >= E + 1
    BY <1>1, <1>2, <1>4
  <2>2. E + 1 \in (E + 1)..n
    BY <1>1, <2>1
  <2>3. n = E + 1 => (E + 1)..n = {n}
    BY <1>1
  <2> HIDE DEF upTo
  <2> QED
    BY <2>1, <2>2, <2>3
<1> HIDE DEF upTo
<1>6. fits = {n \in rest : n - E <= ChunkMessages /\ (n = E + 1 \/ Tokens(d)[n] <= ChunkTokens)}
  BY <1>4, <1>5
<1> HIDE DEF fits
<1>7. E + 1 \in fits
  <2>1. E + 1 \in rest /\ (E + 1) - E = 1
    BY <1>1, <1>2
  <2>2. 1 <= ChunkMessages
    BY ContextAssumption
  <2> QED
    BY <1>6, <2>1, <2>2
<1>8. fits \in SUBSET (0..N)
  <2>1. \A n \in rest : n \in 0..N
    BY <1>1, <1>2
  <2> QED
    BY <1>6, <2>1
<1>9. k \in fits /\ \A x \in fits : x <= k
  BY <1>1, <1>7, <1>8, MaxNumber
<1> HIDE DEF k
<1>10. k \in rest
  BY <1>6, <1>9
<1>11. Chunk(d) = (E + 1)..k
  BY <1>3, <1>4, <1>10
<1>12. Max((E + 1)..k) = k
  <2>1. k \in Nat /\ k \in (E + 1)..k /\ (E + 1)..k \in SUBSET (0..k)
    BY <1>1, <1>2, <1>10
  <2>2. /\ Max((E + 1)..k) \in (E + 1)..k
        /\ \A x \in (E + 1)..k : x <= Max((E + 1)..k)
    BY <2>1, MaxNumber
  <2> QED
    BY <1>1, <2>1, <2>2
<1>13. \A a \in rest :
          a - E <= ChunkMessages /\ (a = E + 1 \/ Tokens(d)[a] <= ChunkTokens) => a <= k
  BY <1>6, <1>9
<1>14. ChunkEnds(d, k)
  BY <1>2, <1>10, <1>11, <1>12, <1>13 DEF ChunkEnds, N, E
<1> QED
  BY <1>14

-----------------------------------------------------------------------------
(* What the window shows.                                                  *)

(* The window takes what a refresh leaves and a message of this length for *)
(* each fault.                                                             *)
Wide(longest) ==
    /\ longest \in Nat
    /\ \A kind \in MessageKinds : kind.tokens <= longest
    /\ longest + MaxFaults * longest <= WindowTokens
    /\ RefreshTokens + MaxFaults * longest <= WindowTokens + 1

(* A chunk takes what a refresh leaves, and so does the window of recent   *)
(* messages, in number and in tokens, with one more message for each       *)
(* fault.  Only if there are faults is the length of messages limited: the *)
(* window shows the newest message however long it is.                     *)
WindowHolds ==
    /\ RefreshMessages <= ChunkMessages + 1
    /\ RefreshTokens <= ChunkTokens + 1
    /\ RefreshMessages + MaxFaults <= WindowMessages + 1
    /\ RefreshTokens <= WindowTokens + 1
    /\ MaxFaults # 0 => \E longest : Wide(longest)

(* After the edge there is what a refresh leaves, up to a, and then one    *)
(* message for each fault at most.                                         *)
Leaves(d, a, f) ==
    /\ a \in Edge(d)..Len(d.messages)
    /\ Len(d.messages) - a <= f
    /\ a - Edge(d) < RefreshMessages
    /\ a - Edge(d) <= 1 \/ Tokens(d)[a] < RefreshTokens

(* A directory from which no prompt can be built owes nothing yet.         *)
Behind(d, f) == PromptReadable(d) => \E a : Leaves(d, a, f)

(* The tokens of a number of messages.                                     *)
LEMMA TokensGrow ==
    ASSUME NEW longest, Wide(longest), NEW d, Numbered(d),
           NEW a \in Edge(d)..Len(d.messages)
    PROVE  \A j \in 0..(Len(d.messages) - a) :
              /\ Tokens(d)[a + j] \in Nat
              /\ Tokens(d)[a + j] <= Tokens(d)[a] + j * longest
<1> DEFINE N == Len(d.messages)
           Fine(j) == Tokens(d)[a + j] \in Nat /\ Tokens(d)[a + j] <= Tokens(d)[a] + j * longest
           T == {j \in 0..(N - a) : ~Fine(j)}
<1> SUFFICES ASSUME T # {} PROVE FALSE
  OBVIOUS
<1>1. Edge(d) \in 0..N /\ N \in Nat /\ longest \in Nat
  BY EdgeIs DEF Wide
<1>2. PICK m \in T : \A k \in T : m <= k
  <2>1. T \subseteq Nat
    BY <1>1
  <2> HIDE DEF T
  <2> QED
    BY <2>1, LeastNumber
<1>3. Tokens(d)[a] \in Nat
  <2>1. a \in 0..N
    BY <1>1
  <2> QED
    BY <2>1, TokensSteps DEF Numbered
<1>4. Fine(0)
  <2>1. a + 0 = a /\ 0 * longest = 0
    BY <1>1
  <2> QED
    BY <1>3, <2>1
<1> HIDE DEF Fine
<1>5. m \in 1..(N - a) /\ m - 1 \in 0..(N - a)
  <2>1. m # 0 /\ m \in 0..(N - a)
    BY <1>2, <1>4
  <2> QED
    BY <1>1, <2>1
<1>6. Fine(m - 1)
  BY <1>1, <1>2, <1>5
<1>7. a + m \in (Edge(d) + 1)..N /\ (a + m) - 1 = a + (m - 1)
  BY <1>1, <1>5
<1>8. /\ Tokens(d)[a + m] = Tokens(d)[a + (m - 1)] + d.messages[a + m].tokens
      /\ Tokens(d)[a + m] \in Nat /\ d.messages[a + m].tokens \in Nat
  BY <1>7, MoreTokens
<1>9. d.messages[a + m].tokens <= longest
  <2>1. a + m \in DOMAIN d.messages
    BY <1>7, MoreTokens, DirectoryParts DEF Numbered
  <2>2. PICK kind \in MessageKinds : d.messages[a + m].tokens = kind.tokens
    BY <2>1 DEF Numbered
  <2> QED
    BY <2>2 DEF Wide
<1>10. m * longest = (m - 1) * longest + longest
  BY <1>1, <1>5
<1>11. (m - 1) * longest \in Nat
  BY <1>1, <1>5
<1>12. Fine(m)
  <2> DEFINE x == m * longest
             y == (m - 1) * longest
             t == Tokens(d)[a + m]
             u == Tokens(d)[a + (m - 1)]
             ta == Tokens(d)[a]
             k == d.messages[a + m].tokens
  <2>1. /\ u \in Nat /\ ta \in Nat /\ u <= ta + y /\ x = y + longest /\ y \in Nat
        /\ t = u + k /\ t \in Nat /\ k \in Nat /\ k <= longest
    BY <1>3, <1>6, <1>8, <1>9, <1>10, <1>11 DEF Fine
  <2> HIDE DEF x, y, t, u, ta, k
  <2>2. t <= ta + x
    BY <1>1, <2>1
  <2> QED
    BY <2>1, <2>2 DEF Fine, t, ta, x
<1> QED
  BY <1>2, <1>12

(* What faults kept from being summarised fits the window.                 *)
LEMMA FaultsFit ==
    ASSUME NEW longest, Wide(longest), NEW d, Numbered(d), NEW a,
           NEW f \in 0..MaxFaults, Leaves(d, a, f)
    PROVE  /\ Tokens(d)[Len(d.messages)] <= WindowTokens
           /\ Tokens(d)[Len(d.messages)] \in Nat
<1> DEFINE N == Len(d.messages)
           E == Edge(d)
<1>1. /\ E \in 0..N /\ N \in Nat /\ a \in E..N /\ N - a <= f /\ f \in Nat /\ f <= MaxFaults
      /\ {RefreshMessages, RefreshTokens, WindowMessages, WindowTokens, MaxFaults} \subseteq Nat
  BY EdgeIs, ContextAssumption DEF Leaves
<1>2. Wide(longest)
  OBVIOUS
<1>4. \A j \in 0..(N - a) :
         Tokens(d)[a + j] \in Nat /\ Tokens(d)[a + j] <= Tokens(d)[a] + j * longest
  BY <1>2, TokensGrow DEF Leaves
<1>5. Tokens(d)[a] \in Nat
  <2>1. a \in 0..N
    BY <1>1
  <2> QED
    BY <2>1, TokensSteps DEF Numbered
<1>6. Tokens(d)[a] <= longest \/ Tokens(d)[a] < RefreshTokens
  <2>1. CASE a = E
    <3>1. Tokens(d)[a] = 0
      BY <1>1, <2>1, NoTokens
    <3> QED
      BY <1>2, <3>1 DEF Wide
  <2>2. CASE a = E + 1
    <3>1. a \in (E + 1)..N /\ a - 1 = E
      BY <1>1, <2>2
    <3>2. Tokens(d)[a] = Tokens(d)[E] + d.messages[a].tokens /\ a \in DOMAIN d.messages
      BY <3>1, MoreTokens, DirectoryParts DEF Numbered
    <3>3. Tokens(d)[E] = 0
      BY <1>1, NoTokens
    <3>4. PICK kind \in MessageKinds : d.messages[a].tokens = kind.tokens
      BY <3>2 DEF Numbered
    <3>5. d.messages[a].tokens \in Nat /\ d.messages[a].tokens <= longest
      BY <1>2, <3>1, <3>4, MoreTokens DEF Wide
    <3> QED
      BY <3>2, <3>3, <3>5
  <2>3. CASE a - E > 1
    BY <1>1, <2>3 DEF Leaves
  <2> QED
    BY <1>1, <2>1, <2>2, <2>3
<1>7. (N - a) * longest <= MaxFaults * longest
  <2> DEFINE j == N - a
  <2>1. j \in Nat /\ j <= MaxFaults /\ longest \in Nat
    BY <1>1, <1>2 DEF Wide
  <2> HIDE DEF j
  <2>2. \E n \in Nat : MaxFaults = j + n
    <3>1. MaxFaults - j \in Nat /\ MaxFaults = j + (MaxFaults - j)
      BY <1>1, <2>1
    <3> QED
      BY <3>1
  <2>3. PICK n \in Nat : MaxFaults = j + n
    BY <2>2
  <2>4. MaxFaults * longest = j * longest + n * longest
    BY <2>1, <2>3
  <2>5. n * longest \in Nat /\ j * longest \in Nat
    BY <2>1
  <2>6. j * longest <= MaxFaults * longest
    BY <2>4, <2>5
  <2> QED
    BY <2>6 DEF j
<1>8. Tokens(d)[N] \in Nat /\ Tokens(d)[N] <= Tokens(d)[a] + (N - a) * longest
  <2> DEFINE j == N - a
  <2>1. j \in 0..j /\ a + j = N
    BY <1>1
  <2>2. Tokens(d)[a + j] \in Nat /\ Tokens(d)[a + j] <= Tokens(d)[a] + j * longest
    BY <1>4, <2>1
  <2> HIDE DEF j, N
  <2>3. Tokens(d)[N] \in Nat /\ Tokens(d)[N] <= Tokens(d)[a] + j * longest
    BY <2>1, <2>2
  <2> QED
    BY <2>3 DEF j, N
<1>9. (N - a) * longest \in Nat /\ MaxFaults * longest \in Nat /\ longest \in Nat
  <2>1. N - a \in Nat /\ longest \in Nat /\ MaxFaults \in Nat
    BY <1>1, <1>2 DEF Wide
  <2> DEFINE j == N - a
  <2> HIDE DEF j
  <2>2. j * longest \in Nat /\ MaxFaults * longest \in Nat
    BY <2>1 DEF j
  <2> QED
    BY <2>1, <2>2 DEF j
<1>10. /\ longest + MaxFaults * longest <= WindowTokens
       /\ RefreshTokens + MaxFaults * longest <= WindowTokens + 1
  BY <1>2 DEF Wide
<1> DEFINE x == (N - a) * longest
           y == MaxFaults * longest
           t == Tokens(d)[N]
           ta == Tokens(d)[a]
<1>11. x \in Nat /\ y \in Nat /\ x <= y /\ t \in Nat /\ ta \in Nat /\ t <= ta + x
  BY <1>5, <1>7, <1>8, <1>9
<1>12. ta <= longest \/ ta < RefreshTokens
  BY <1>6
<1>13. longest + y <= WindowTokens /\ RefreshTokens + y <= WindowTokens + 1
  BY <1>10
<1> HIDE DEF x, y, t, ta
<1>14. t <= WindowTokens
  BY <1>1, <1>9, <1>11, <1>12, <1>13
<1> QED
  BY <1>11, <1>14 DEF t

(* What comes after the edge fits the window, or is a single message.      *)
LEMMA RestFits ==
    ASSUME WindowHolds, NEW d, Numbered(d), NEW a, NEW f \in 0..MaxFaults, Leaves(d, a, f)
    PROVE  /\ Len(d.messages) - Edge(d) <= WindowMessages
           /\ Len(d.messages) - Edge(d) <= 1 \/ Tokens(d)[Len(d.messages)] <= WindowTokens
           /\ Tokens(d)[Len(d.messages)] \in Nat
<1> DEFINE N == Len(d.messages)
           E == Edge(d)
<1>1. /\ E \in 0..N /\ N \in Nat /\ a \in E..N /\ N - a <= f /\ f \in Nat /\ f <= MaxFaults
      /\ {RefreshMessages, RefreshTokens, WindowMessages, WindowTokens, MaxFaults} \subseteq Nat
  BY EdgeIs, ContextAssumption DEF Leaves
<1>2. N - E <= WindowMessages
  <2>1. a - E < RefreshMessages /\ RefreshMessages + MaxFaults <= WindowMessages + 1
    BY DEF Leaves, WindowHolds
  <2> HIDE DEF N, E
  <2> QED
    BY <1>1, <2>1
<1>3. Tokens(d)[N] \in Nat
  <2>1. N \in 0..N
    BY <1>1
  <2> QED
    BY <2>1, TokensSteps DEF Numbered
<1>4. N - E <= 1 \/ Tokens(d)[N] <= WindowTokens
  <2>1. CASE MaxFaults = 0
    <3>1. a = N
      BY <1>1, <2>1
    <3>2. N - E <= 1 \/ Tokens(d)[N] < RefreshTokens
      BY <3>1 DEF Leaves
    <3>3. RefreshTokens <= WindowTokens + 1
      BY DEF WindowHolds
    <3> DEFINE t == Tokens(d)[N]
    <3>4. t \in Nat /\ (N - E <= 1 \/ t < RefreshTokens)
      BY <1>3, <3>2
    <3> HIDE DEF t, N, E
    <3>5. N - E <= 1 \/ t <= WindowTokens
      BY <1>1, <3>3, <3>4
    <3> QED
      BY <3>5 DEF t
  <2>2. CASE MaxFaults # 0
    <3>1. PICK longest : Wide(longest)
      BY <2>2 DEF WindowHolds
    <3> QED
      BY <3>1, FaultsFit
  <2> QED
    BY <2>1, <2>2
<1> QED
  BY <1>2, <1>3, <1>4

(* So a prompt built now shows all of it that is for prompts.              *)
LEMMA RecentShows ==
    ASSUME WindowHolds, NEW d, Numbered(d), NEW a, NEW f \in 0..MaxFaults, Leaves(d, a, f)
    PROVE  \A i \in DOMAIN d.messages :
              i > Edge(d) /\ d.messages[i].prompt => i \in RecentMessages(d)
<1> DEFINE N == Len(d.messages)
           E == Edge(d)
           shown(n) == {i \in (N - n + 1)..N : d.messages[i].prompt}
<1>1. /\ E \in 0..N /\ N \in Nat /\ DOMAIN d.messages = 1..N
      /\ WindowMessages \in Nat /\ WindowTokens \in Nat
  BY EdgeIs, DirectoryParts, ContextAssumption DEF Numbered
<1>2. /\ N - E <= WindowMessages /\ Tokens(d)[N] \in Nat
      /\ N - E <= 1 \/ Tokens(d)[N] <= WindowTokens
  BY RestFits
<1>3. Recent(d) \in Nat /\ N - E <= Recent(d) /\ Recent(d) <= N
  BY <1>1, <1>2, RecentNumber DEF Numbered
<1>4. PICK v : Reads(v, d)
  BY ReadsExist DEF Numbered
<1> DEFINE Fine(n) == /\ v[n].selected = shown(n)
                      /\ v[n].used \in Nat
                      /\ v[n].used + Tokens(d)[N - n] <= Tokens(d)[N]
           T == {n \in 0..(N - E) : ~Fine(n)}
<1>5. Fine(0)
  <2>1. v[0] = [selected |-> {}, used |-> 0]
    BY <1>4 DEF Reads
  <2>2. shown(0) = {} /\ N - 0 = N
    BY <1>1
  <2> QED
    BY <1>2, <2>1, <2>2
<1>6. ASSUME NEW n \in 1..(N - E), Fine(n - 1) PROVE Fine(n)
  <2> DEFINE i == N - n + 1
             m == d.messages[i]
             s == v[n - 1]
  <2>1. /\ n \in 1..Recent(d) /\ i \in (E + 1)..N /\ i \in 1..N /\ i - 1 = N - n
        /\ N - (n - 1) = i /\ n \in Nat
    BY <1>1, <1>3
  <2>2. v[n] = Take(d, s, m)
    BY <1>4, <2>1 DEF Reads
  <2>3. m.sequence = i
    BY <1>1, <2>1 DEF Numbered
  <2>4. Tokens(d)[i] = Tokens(d)[N - n] + m.tokens /\ m.tokens \in Nat /\ Tokens(d)[N - n] \in Nat
    BY <2>1, MoreTokens
  <2>5. s.selected = shown(n - 1) /\ s.used \in Nat /\ s.used + Tokens(d)[i] <= Tokens(d)[N]
    BY <1>6, <2>1
  <2>6. s.used + m.tokens <= WindowTokens \/ s.selected = {}
    <3>1. CASE N - E <= 1
      <4>1. n - 1 = 0
        BY <1>1, <2>1, <3>1
      <4>2. v[0] = [selected |-> {}, used |-> 0]
        BY <1>4 DEF Reads
      <4> QED
        BY <4>1, <4>2
    <3>2. CASE Tokens(d)[N] <= WindowTokens
      <4> DEFINE t == Tokens(d)[i]
                 u == Tokens(d)[N - n]
                 tn == Tokens(d)[N]
      <4>1. /\ t = u + m.tokens /\ u \in Nat /\ tn \in Nat /\ tn <= WindowTokens
            /\ s.used + t <= tn
        BY <1>2, <2>4, <2>5, <3>2
      <4> HIDE DEF t, u, tn, m, s, i
      <4> QED
        BY <1>1, <2>4, <2>5, <4>1
    <3> QED
      BY <1>2, <3>1, <3>2
  <2>7. Cardinality(s.selected) < WindowMessages
    <3>1. shown(n - 1) \in SUBSET ((i + 1)..N)
      <4>1. N - (n - 1) + 1 = i + 1
        BY <1>1, <2>1
      <4> QED
        BY <4>1
    <3>2. i + 1 \in Int /\ N \in Int
      BY <1>1, <2>1
    <3>3. IsFiniteSet((i + 1)..N) /\ Cardinality((i + 1)..N) <= n - 1
      <4>1. /\ IsFiniteSet((i + 1)..N)
            /\ Cardinality((i + 1)..N) = IF i + 1 > N THEN 0 ELSE N - (i + 1) + 1
        <5> HIDE DEF i, N
        <5> QED
          BY <3>2, FS_Interval
      <4>2. N - (i + 1) + 1 = n - 1 /\ 0 <= n - 1
        BY <1>1, <2>1
      <4> HIDE DEF i, N
      <4> QED
        BY <4>1, <4>2
    <3>4. Cardinality(shown(n - 1)) \in Nat /\ Cardinality(shown(n - 1)) <= Cardinality((i + 1)..N)
      <4> HIDE DEF shown, i
      <4> QED
        BY <3>1, <3>3, FS_Subset, FS_CardinalityType
    <3>5. Cardinality((i + 1)..N) \in Nat
      BY <3>3, FS_CardinalityType
    <3> HIDE DEF shown, i, s
    <3> QED
      BY <1>1, <1>2, <2>1, <2>5, <3>3, <3>4, <3>5
  <2>8. CASE m.prompt
    <3>1. v[n] = [selected |-> s.selected \cup {i}, used |-> s.used + m.tokens]
      <4> HIDE DEF i, m, s
      <4>1. i > LatestSummary(d).end
        BY <1>1, <2>1 DEF Edge
      <4> QED
        BY <2>2, <2>3, <2>6, <2>7, <2>8, <4>1 DEF Take
    <3>2. shown(n) = shown(n - 1) \cup {i}
      <4>1. (N - n + 1)..N = ((N - (n - 1) + 1)..N) \cup {i}
        BY <1>1, <2>1
      <4> QED
        BY <2>8, <4>1
    <3> HIDE DEF i, m, s, shown
    <3>3. v[n].selected = shown(n) /\ v[n].used = s.used + m.tokens
      BY <2>5, <3>1, <3>2
    <3> QED
      BY <1>2, <2>4, <2>5, <3>3
  <2>9. CASE ~m.prompt
    <3>1. v[n] = s
      BY <2>2, <2>9 DEF Take
    <3>2. shown(n) = shown(n - 1)
      <4>1. (N - n + 1)..N = ((N - (n - 1) + 1)..N) \cup {i}
        BY <1>1, <2>1
      <4> QED
        BY <2>9, <4>1
    <3> HIDE DEF i, m, s, shown
    <3> QED
      BY <1>2, <2>4, <2>5, <3>1, <3>2
  <2> QED
    BY <2>8, <2>9
<1> HIDE DEF Fine
<1>7. Fine(N - E)
  <2>1. T = {}
    <3> SUFFICES ASSUME T # {} PROVE FALSE
      OBVIOUS
    <3>1. PICK m \in T : \A k \in T : m <= k
      <4>1. T \subseteq Nat
        BY <1>1
      <4> HIDE DEF T
      <4> QED
        BY <4>1, LeastNumber
    <3>2. m # 0 /\ m \in 0..(N - E)
      BY <1>5, <3>1
    <3>3. m \in 1..(N - E) /\ m - 1 \in 0..(N - E)
      BY <1>1, <3>2
    <3>4. Fine(m - 1)
      BY <1>1, <3>1, <3>3
    <3> QED
      BY <1>6, <3>1, <3>3, <3>4
  <2> QED
    BY <1>1, <2>1
<1> DEFINE U == {n \in (N - E)..Recent(d) : ~(v[N - E].selected \subseteq v[n].selected)}
<1>8. U = {}
  <2> SUFFICES ASSUME U # {} PROVE FALSE
    OBVIOUS
  <2>1. PICK m \in U : \A k \in U : m <= k
    <3>1. U \subseteq Nat
      BY <1>1, <1>3
    <3> HIDE DEF U
    <3> QED
      BY <3>1, LeastNumber
  <2>2. m # N - E /\ m \in (N - E)..Recent(d)
    BY <2>1
  <2>3. m - 1 \in (N - E)..Recent(d) /\ m \in 1..Recent(d) /\ m - 1 < m
    BY <1>1, <1>3, <2>2
  <2>4. v[N - E].selected \subseteq v[m - 1].selected
    BY <2>1, <2>3
  <2>5. v[m] = Take(d, v[m - 1], d.messages[N - m + 1])
    BY <1>4, <2>3 DEF Reads
  <2>6. v[m - 1].selected \subseteq v[m].selected
    BY <2>5 DEF Take
  <2> QED
    BY <2>1, <2>4, <2>6
<1>9. shown(N - E) \subseteq RecentMessages(d)
  <2>1. v[N - E].selected = shown(N - E)
    BY <1>7 DEF Fine
  <2>2. Recent(d) \in (N - E)..Recent(d)
    BY <1>1, <1>3
  <2>3. v[N - E].selected \subseteq v[Recent(d)].selected
    BY <1>8, <2>2
  <2> QED
    BY <1>4, <2>1, <2>3 DEF Reads
<1> SUFFICES ASSUME NEW i \in 1..N, i > E, d.messages[i].prompt PROVE i \in RecentMessages(d)
  BY <1>1
<1>10. i \in (N - (N - E) + 1)..N
  BY <1>1
<1> QED
  BY <1>9, <1>10

-----------------------------------------------------------------------------
(* Coverage of a directory.                                                *)

(* A summary made from all the messages up to its end.                     *)
Covers(d, s) ==
    \A i \in DOMAIN d.messages : i <= s.end /\ d.messages[i].prompt => i \in s.content

(* A prompt that told of all messages.                                     *)
Told(d, seen) == \A i \in DOMAIN d.messages : d.messages[i].prompt => i \in seen

(* A directory after f faults.                                             *)
GoodDir(d, f) ==
    /\ Numbered(d)
    /\ WindowHolds => /\ \A s \in Stored(d) : Covers(d, s)
                      /\ Behind(d, f)

(* A directory with the same journals and summary is read the same.        *)
SameReading(d, e) ==
    /\ e.messages = d.messages
    /\ e.summaries = d.summaries
    /\ e.latest = d.latest
    /\ d.torn \subseteq e.torn

(* What is read the same is as good.                                       *)
LEMMA ReadSame ==
    ASSUME NEW d, NEW e \in Directory, NEW f, SameReading(d, e), GoodDir(d, f)
    PROVE  /\ GoodDir(e, f)
           /\ \A seen : Told(e, seen) <=> Told(d, seen)
<1>1. /\ e.messages = d.messages /\ e.summaries = d.summaries /\ e.latest = d.latest
      /\ d.torn \subseteq e.torn
  BY DEF SameReading
<1>2. LatestSummary(e) = LatestSummary(d)
  BY <1>1 DEF LatestSummary
<1>3. Unsummarized(e) = Unsummarized(d) /\ Edge(e) = Edge(d) /\ Stored(e) = Stored(d)
  BY <1>1, <1>2 DEF Unsummarized, Edge, Stored
<1>4. Tokens(e) = Tokens(d)
  BY <1>1, <1>3 DEF Tokens
<1>5. PromptReadable(e) => PromptReadable(d)
  BY <1>1 DEF PromptReadable, SummaryReadable
<1>6. Numbered(e)
  BY <1>1, <1>3 DEF GoodDir, Numbered
<1>7. Behind(d, f) => Behind(e, f)
  BY <1>1, <1>3, <1>4, <1>5 DEF Behind, Leaves
<1>8. \A s \in Stored(d) : Covers(d, s) <=> Covers(e, s)
  BY <1>1 DEF Covers
<1> QED
  BY <1>1, <1>3, <1>6, <1>7, <1>8 DEF GoodDir, Told

(* Fewer faults are not more.                                              *)
LEMMA MoreFaults ==
    ASSUME NEW d, NEW f \in Nat, GoodDir(d, f)
    PROVE  GoodDir(d, f + 1)
<1>1. Behind(d, f) => Behind(d, f + 1)
  <2> SUFFICES ASSUME NEW a, Leaves(d, a, f) PROVE Leaves(d, a, f + 1)
    BY DEF Behind
  <2>1. Edge(d) \in 0..Len(d.messages) /\ Len(d.messages) \in Nat
    BY EdgeIs DEF GoodDir
  <2> QED
    BY <2>1 DEF Leaves
<1> QED
  BY <1>1 DEF GoodDir

(* When no refresh is due, nothing is behind.                              *)
LEMMA NothingDue ==
    ASSUME NEW d, NEW f \in Nat, NEW g, GoodDir(d, g), ~(SummaryReadable(d) /\ RefreshDue(d))
    PROVE  GoodDir(d, f)
<1>1. Behind(d, f)
  <2> SUFFICES ASSUME PromptReadable(d) PROVE Leaves(d, Len(d.messages), f)
    BY DEF Behind
  <2>1. Edge(d) \in 0..Len(d.messages) /\ Len(d.messages) \in Nat
    BY EdgeIs DEF GoodDir
  <2>2. ~RefreshDue(d)
    BY DEF PromptReadable
  <2>3. Unsummarized(d) = (Edge(d) + 1)..Len(d.messages)
    BY UnsummarizedIs DEF GoodDir
  <2>4. Cardinality(Unsummarized(d)) = Len(d.messages) - Edge(d)
    <3>1. Edge(d) + 1 \in Int /\ Len(d.messages) \in Int
      BY <2>1
    <3>2. Cardinality((Edge(d) + 1)..Len(d.messages)) =
             IF Edge(d) + 1 > Len(d.messages) THEN 0 ELSE Len(d.messages) - (Edge(d) + 1) + 1
      BY <3>1, FS_Interval
    <3> QED
      BY <2>1, <2>3, <3>2
  <2>5. Len(d.messages) - Edge(d) < RefreshMessages
    BY <2>1, <2>2, <2>4, ContextAssumption DEF RefreshDue
  <2>6. Tokens(d)[Len(d.messages)] < RefreshTokens
    <3>1. Tokens(d)[Len(d.messages)] \in Nat
      BY <2>1, TokensSteps DEF GoodDir, Numbered
    <3> QED
      BY <2>2, <3>1, ContextAssumption DEF RefreshDue
  <2> QED
    BY <2>1, <2>5, <2>6 DEF Leaves
<1> QED
  BY <1>1 DEF GoodDir

-----------------------------------------------------------------------------
(* A new message.                                                          *)

(* The tokens of the messages before it stay.                              *)
LEMMA TokensStay ==
    ASSUME NEW d \in Directory, NEW e \in Directory, NEW m, e.messages = Append(d.messages, m),
           LatestSummary(e) = LatestSummary(d)
    PROVE  \A n \in 0..Len(d.messages) : Tokens(e)[n] = Tokens(d)[n]
<1> DEFINE N == Len(d.messages)
           T == {n \in 0..N : Tokens(e)[n] # Tokens(d)[n]}
<1> SUFFICES ASSUME T # {} PROVE FALSE
  OBVIOUS
<1>1. /\ N \in Nat /\ Len(e.messages) = N + 1
      /\ DOMAIN d.messages = 1..N /\ DOMAIN e.messages = 1..(N + 1)
      /\ \A i \in 1..N : e.messages[i] = d.messages[i]
  <2>1. d.messages \in Seq(Message) /\ e.messages \in Seq(Message)
    BY DirectoryParts
  <2> QED
    BY <2>1
<1>2. PICK n \in T : \A k \in T : n <= k
  <2>1. T \subseteq Nat
    BY <1>1
  <2> HIDE DEF T
  <2> QED
    BY <2>1, LeastNumber
<1>3. n # 0 /\ n \in 0..N
  BY <1>2, TokensSteps
<1>4. n \in 1..N /\ n \in 1..Len(e.messages) /\ n - 1 \in 0..N
  BY <1>1, <1>3
<1>5. Tokens(e)[n - 1] = Tokens(d)[n - 1]
  BY <1>1, <1>2, <1>4
<1>6. n \in Unsummarized(e) <=> n \in Unsummarized(d)
  BY <1>1, <1>4 DEF Unsummarized
<1>7. Tokens(e)[n] = IF n \in Unsummarized(e) THEN Tokens(e)[n - 1] + e.messages[n].tokens
                     ELSE Tokens(e)[n - 1]
  BY <1>4, TokensSteps
<1>8. Tokens(d)[n] = IF n \in Unsummarized(d) THEN Tokens(d)[n - 1] + d.messages[n].tokens
                     ELSE Tokens(d)[n - 1]
  BY <1>4, TokensSteps
<1>9. e.messages[n] = d.messages[n]
  BY <1>1, <1>4
<1> HIDE DEF N
<1>10. Tokens(e)[n] = Tokens(d)[n]
  BY <1>5, <1>6, <1>7, <1>8, <1>9
<1> QED
  BY <1>2, <1>10

(* A message is stored: until the refresh, one more may be left.           *)
LEMMA AppendGood ==
    ASSUME NEW d, NEW e \in Directory, NEW f \in Nat, NEW m \in Message, GoodDir(d, f),
           m.sequence = Len(d.messages) + 1,
           \E kind \in MessageKinds : m.tokens = kind.tokens,
           e.messages = Append(d.messages, m),
           e.summaries = d.summaries, e.latest = d.latest, e.torn = d.torn
    PROVE  GoodDir(e, f + 1)
<1> DEFINE N == Len(d.messages)
<1>1. /\ N \in Nat /\ Len(e.messages) = N + 1
      /\ DOMAIN d.messages = 1..N /\ DOMAIN e.messages = 1..(N + 1)
      /\ \A i \in 1..N : e.messages[i] = d.messages[i]
      /\ e.messages[N + 1] = m
  <2>1. d.messages \in Seq(Message)
    BY DirectoryParts DEF GoodDir, Numbered
  <2> QED
    BY <2>1
<1>2. LatestSummary(e) = LatestSummary(d)
  BY DEF LatestSummary
<1>3. Stored(e) = Stored(d) /\ Edge(e) = Edge(d)
  BY <1>2 DEF Stored, Edge
<1>4. d \in Directory /\ Numbered(d)
  BY DEF GoodDir, Numbered
<1>5. \A s \in Stored(d) : s.end \in Nat /\ s.end <= N /\ s.version <= Len(d.summaries)
  <2> SUFFICES ASSUME NEW s \in Stored(d)
               PROVE  s.end \in Nat /\ s.end <= N /\ s.version <= Len(d.summaries)
    OBVIOUS
  <2>1. s \in Summary
    BY <1>4, DirectoryParts DEF Stored, ToSet
  <2> QED
    BY <1>4, <2>1, SummaryParts DEF Numbered
<1>6. Numbered(e)
  <2>1. \A i \in DOMAIN e.messages :
          /\ e.messages[i].sequence = i
          /\ \E kind \in MessageKinds : e.messages[i].tokens = kind.tokens
    <3> SUFFICES ASSUME NEW i \in 1..(N + 1)
                 PROVE  /\ e.messages[i].sequence = i
                        /\ \E kind \in MessageKinds : e.messages[i].tokens = kind.tokens
      BY <1>1
    <3>1. CASE i \in 1..N
      BY <1>1, <1>4, <3>1 DEF Numbered
    <3>2. CASE i = N + 1
      BY <1>1, <3>2
    <3> QED
      BY <1>1, <3>1, <3>2
  <2>2. \A s \in Stored(e) : s.version <= Len(e.summaries) /\ s.end <= Len(e.messages)
    BY <1>1, <1>3, <1>5
  <2> QED
    BY <2>1, <2>2 DEF Numbered
<1>7. ASSUME WindowHolds PROVE \A s \in Stored(e) : Covers(e, s)
  <2> SUFFICES ASSUME NEW s \in Stored(d), NEW i \in 1..(N + 1), i <= s.end, e.messages[i].prompt
               PROVE  i \in s.content
    BY <1>1, <1>3 DEF Covers
  <2>1. i \in 1..N
    BY <1>1, <1>5
  <2>2. Covers(d, s)
    BY <1>7 DEF GoodDir
  <2> QED
    BY <1>1, <2>1, <2>2 DEF Covers
<1>8. ASSUME WindowHolds PROVE Behind(e, f + 1)
  <2> SUFFICES ASSUME PromptReadable(e) PROVE \E a : Leaves(e, a, f + 1)
    BY DEF Behind
  <2>1. PromptReadable(d)
    BY DEF PromptReadable, SummaryReadable
  <2>2. PICK a : Leaves(d, a, f)
    BY <1>8, <2>1 DEF GoodDir, Behind
  <2>3. Edge(d) \in 0..N
    BY <1>4, EdgeIs
  <2>4. a \in 0..N /\ a \in Edge(d)..N
    BY <1>1, <2>2, <2>3 DEF Leaves
  <2>5. Tokens(e)[a] = Tokens(d)[a]
    BY <1>2, <1>4, <2>4, TokensStay
  <2>6. a \in Edge(e)..Len(e.messages) /\ Len(e.messages) - a <= f + 1
    BY <1>1, <1>3, <2>2, <2>3, <2>4 DEF Leaves
  <2> QED
    BY <1>3, <2>2, <2>5, <2>6 DEF Leaves
<1> QED
  BY <1>6, <1>7, <1>8 DEF GoodDir

-----------------------------------------------------------------------------
(* A new summary.                                                          *)

(* One that leaves little behind.                                          *)
Short(d, end, f) ==
    \E a \in end..Len(d.messages) :
        Len(d.messages) - a <= f /\ a - end < RefreshMessages /\ a - end <= 1

(* One that may follow the latest.                                         *)
Follows(d, s, f) ==
    /\ s \in Summary
    /\ s.version = LatestSummary(d).version + 1
    /\ s.end <= Len(d.messages)
    /\ WindowHolds => Covers(d, s) /\ Short(d, s.end, f)

(* It is not the empty one.                                                *)
LEMMA FollowsIsSome ==
    ASSUME NEW d, NEW s, NEW f, Numbered(d), Follows(d, s, f)
    PROVE  s # NoSummary /\ s.version \in Nat /\ s.end \in Nat
<1>1. LatestSummary(d).version \in Nat
  BY EdgeIs
<1>2. s.version # NoSummary.version
  BY <1>1 DEF NoSummary, Follows
<1> QED
  BY <1>1, <1>2, SummaryParts DEF Follows

(* A directory whose latest summary is s.                                  *)
LEMMA NowLatest ==
    ASSUME NEW d, NEW e, NEW s, NEW f, Numbered(d), Follows(d, s, f), e.messages = d.messages,
           Numbered(e), LatestSummary(e) = s, WindowHolds
    PROVE  Behind(e, f)
<1>1. PICK a \in s.end..Len(d.messages) :
        Len(d.messages) - a <= f /\ a - s.end < RefreshMessages /\ a - s.end <= 1
  BY DEF Follows, Short
<1>2. Leaves(e, a, f)
  BY <1>1 DEF Leaves, Edge
<1> QED
  BY <1>2 DEF Behind

(* It is stored, and covers what it says it does.                          *)
LEMMA SummaryStored ==
    ASSUME NEW d, NEW e \in Directory, NEW f \in Nat, NEW s, GoodDir(d, f + 1),
           Follows(d, s, f), e.messages = d.messages, e.summaries = Append(d.summaries, s),
           e.latest \in {d.latest, s}
    PROVE  /\ Numbered(e)
           /\ WindowHolds => \A x \in Stored(e) : Covers(e, x)
<1> DEFINE n == Len(d.summaries)
<1>1. Numbered(d) /\ d \in Directory /\ s \in Summary
  BY DEF GoodDir, Numbered, Follows
<1>2. /\ n \in Nat /\ Len(e.summaries) = n + 1
      /\ DOMAIN d.summaries = 1..n /\ DOMAIN e.summaries = 1..(n + 1)
      /\ \A i \in 1..n : e.summaries[i] = d.summaries[i]
      /\ e.summaries[n + 1] = s
  <2>1. d.summaries \in Seq(Summary)
    BY <1>1, DirectoryParts
  <2> QED
    BY <1>1, <2>1
<1>3. LatestSummary(d).version \in Nat /\ LatestSummary(d).version <= n
  BY <1>1, EdgeIs
<1>4. s.version \in Nat /\ s.version <= n + 1 /\ s.end <= Len(d.messages)
  BY <1>3 DEF Follows
<1>5. \A x \in Stored(e) : x \in Stored(d) \/ x = s
  <2> SUFFICES ASSUME NEW i \in 1..(n + 1) PROVE e.summaries[i] \in Stored(d) \cup {s}
    BY <1>2 DEF Stored, ToSet
  <2>1. CASE i \in 1..n
    BY <1>2, <2>1 DEF Stored, ToSet
  <2>2. CASE i = n + 1
    BY <1>2, <2>2
  <2> QED
    BY <1>2, <2>1, <2>2
<1>6. \A x \in Stored(d) : x.version \in Nat
  BY <1>1, DirectoryParts, SummaryParts DEF Stored, ToSet
<1>7. Numbered(e)
  <2>1. \A x \in Stored(e) : x.version <= Len(e.summaries) /\ x.end <= Len(e.messages)
    <3> SUFFICES ASSUME NEW x \in Stored(e)
                 PROVE  x.version <= n + 1 /\ x.end <= Len(d.messages)
      BY <1>2
    <3>1. CASE x \in Stored(d)
      BY <1>1, <1>2, <1>6, <3>1 DEF Numbered
    <3>2. CASE x = s
      BY <1>4, <3>2
    <3> QED
      BY <1>5, <3>1, <3>2
  <2> QED
    BY <1>1, <2>1 DEF Numbered
<1>8. ASSUME WindowHolds PROVE \A x \in Stored(e) : Covers(e, x)
  <2>1. \A x \in Stored(d) : Covers(d, x)
    BY <1>8 DEF GoodDir
  <2>2. Covers(d, s)
    BY <1>8 DEF Follows
  <2> QED
    BY <1>5, <2>1, <2>2 DEF Covers
<1> QED
  BY <1>7, <1>8

(* It is appended to the journal.                                          *)
LEMMA JournalGood ==
    ASSUME NEW d, NEW e \in Directory, NEW f \in Nat, NEW s, GoodDir(d, f + 1),
           Follows(d, s, f), e.messages = d.messages, e.summaries = Append(d.summaries, s),
           e.latest = d.latest, e.torn = d.torn
    PROVE  GoodDir(e, f + 1)
<1> DEFINE n == Len(d.summaries)
<1>1. Numbered(d) /\ d \in Directory /\ s \in Summary
  BY DEF GoodDir, Numbered, Follows
<1>2. /\ n \in Nat /\ Len(e.summaries) = n + 1 /\ d.summaries \in Seq(Summary)
      /\ DOMAIN d.summaries = 1..n /\ DOMAIN e.summaries = 1..(n + 1)
      /\ \A i \in 1..n : e.summaries[i] = d.summaries[i]
      /\ e.summaries[n + 1] = s
  <2>1. d.summaries \in Seq(Summary)
    BY <1>1, DirectoryParts
  <2> QED
    BY <1>1, <2>1
<1>3. LatestSummary(d).version \in Nat /\ LatestSummary(d).version <= n
  BY <1>1, EdgeIs
<1>4. s.version \in Nat /\ s.version <= n + 1 /\ s.end <= Len(d.messages)
  BY <1>3 DEF Follows
<1>5. \A x \in Stored(d) : x.version \in Nat
  BY <1>1, DirectoryParts, SummaryParts DEF Stored, ToSet
<1>6. Numbered(e) /\ (WindowHolds => \A x \in Stored(e) : Covers(e, x))
  BY SummaryStored
<1>7. CASE d.latest # NoSummary
  <2>1. LatestSummary(e) = LatestSummary(d)
    BY <1>7 DEF LatestSummary
  <2>2. Unsummarized(e) = Unsummarized(d) /\ Edge(e) = Edge(d)
    BY <2>1 DEF Unsummarized, Edge
  <2>3. Tokens(e) = Tokens(d)
    BY <2>2 DEF Tokens
  <2>4. PromptReadable(e) => PromptReadable(d)
    BY DEF PromptReadable, SummaryReadable
  <2>5. Behind(d, f + 1) => Behind(e, f + 1)
    BY <2>2, <2>3, <2>4 DEF Behind, Leaves
  <2> QED
    BY <1>6, <2>5 DEF GoodDir
<1>8. CASE d.latest = NoSummary
  <2>1. \A i \in DOMAIN d.summaries : d.summaries[i].version < s.version
    <3> SUFFICES ASSUME NEW i \in DOMAIN d.summaries PROVE d.summaries[i].version < s.version
      OBVIOUS
    <3>1. d.summaries[i].version <= LatestSummary(d).version
      BY <1>1, <1>8, LatestIs
    <3>2. d.summaries[i].version \in Nat
      BY <1>5 DEF Stored, ToSet
    <3> QED
      BY <1>3, <3>1, <3>2 DEF Follows
  <2> DEFINE best == {i \in DOMAIN e.summaries :
                        \A j \in DOMAIN e.summaries :
                           e.summaries[j].version <= e.summaries[i].version}
  <2>2. best = {n + 1}
    <3>1. \A i \in 1..n : ~(s.version <= d.summaries[i].version)
      <4> SUFFICES ASSUME NEW i \in 1..n PROVE ~(s.version <= d.summaries[i].version)
        OBVIOUS
      <4>1. d.summaries[i].version \in Nat
        BY <1>2, <1>5 DEF Stored, ToSet
      <4> QED
        BY <1>2, <1>4, <2>1, <4>1
    <3>2. \A i \in 1..n : i \notin best
      BY <1>2, <3>1
    <3>3. \A j \in 1..(n + 1) : e.summaries[j].version <= s.version
      <4> SUFFICES ASSUME NEW j \in 1..(n + 1) PROVE e.summaries[j].version <= s.version
        OBVIOUS
      <4>1. CASE j \in 1..n
        <5>1. d.summaries[j].version \in Nat /\ d.summaries[j].version < s.version
          BY <1>2, <1>5, <2>1, <4>1 DEF Stored, ToSet
        <5> QED
          BY <1>2, <1>4, <4>1, <5>1
      <4>2. CASE j = n + 1
        BY <1>2, <1>4, <4>2
      <4> QED
        BY <1>2, <4>1, <4>2
    <3>4. n + 1 \in best
      BY <1>2, <3>3
    <3>5. \A i \in best : i \in 1..n \/ i = n + 1
      BY <1>2
    <3> HIDE DEF best
    <3> QED
      BY <3>2, <3>4, <3>5
  <2>3. Min(best) = n + 1
    <3>1. best \subseteq Nat /\ best # {}
      BY <1>2, <2>2
    <3> HIDE DEF best
    <3> QED
      BY <2>2, <3>1, MinNumber
  <2>4. e.latest = NoSummary /\ e.summaries # <<>>
    <3>1. e.latest = NoSummary
      BY <1>8
    <3>2. e.summaries = <<>> => Len(e.summaries) = 0
      OBVIOUS
    <3> QED
      BY <1>2, <3>1, <3>2
  <2>5. LatestSummary(e) = e.summaries[Min(best)]
    BY <2>4 DEF LatestSummary
  <2> HIDE DEF best
  <2>6. LatestSummary(e) = s
    BY <1>2, <2>3, <2>5
  <2>7. WindowHolds => Behind(e, f)
    BY <1>1, <1>6, <2>6, NowLatest
  <2>8. GoodDir(e, f)
    BY <1>6, <2>7 DEF GoodDir
  <2> QED
    BY <2>8, MoreFaults
<1> QED
  BY <1>7, <1>8

(* It then replaces the state file.                                        *)
LEMMA LatestGood ==
    ASSUME NEW d, NEW e \in Directory, NEW f \in Nat, NEW s, GoodDir(d, f + 1),
           Follows(d, s, f), e.messages = d.messages, e.summaries = Append(d.summaries, s),
           e.latest = s, e.torn = d.torn
    PROVE  GoodDir(e, f)
<1>1. Numbered(e) /\ (WindowHolds => \A x \in Stored(e) : Covers(e, x))
  BY SummaryStored
<1>2. LatestSummary(e) = s
  <2>1. e.latest # NoSummary
    BY FollowsIsSome DEF GoodDir
  <2> QED
    BY <2>1 DEF LatestSummary
<1>3. WindowHolds => Behind(e, f)
  BY <1>1, <1>2, NowLatest DEF GoodDir
<1> QED
  BY <1>1, <1>3 DEF GoodDir

(* A refresh covers what it replaces, and leaves little behind.            *)
LEMMA NextFollows ==
    ASSUME NEW d, NEW f \in Nat, GoodDir(d, f + 1), RefreshDue(d),
           SummaryReadable(d), "messages" \notin d.torn
    PROVE  Follows(d, NextSummary(d), f)
<1> DEFINE N == Len(d.messages)
           E == Edge(d)
           s == NextSummary(d)
<1>1. Numbered(d) /\ d \in Directory
  BY DEF GoodDir, Numbered
<1>2. /\ E \in 0..N /\ N \in Nat /\ DOMAIN d.messages = 1..N /\ N <= MaxMessages
      /\ LatestSummary(d).version \in Nat /\ LatestSummary(d).content \subseteq Numbers
  BY <1>1, EdgeIs, DirectoryParts, FewMessages
<1>3. PICK k : ChunkEnds(d, k)
  BY <1>1, ChunkIs
<1>4. k \in (E + 1)..N /\ Chunk(d) = (E + 1)..k /\ Max(Chunk(d)) = k
  BY <1>3 DEF ChunkEnds
<1>5. \A i \in 1..N : d.messages[i].sequence = i
  BY <1>1, <1>2 DEF Numbered
<1>6. /\ s.version = LatestSummary(d).version + 1
      /\ s.end = k
      /\ s.content = LatestSummary(d).content \cup ((E + 1)..k)
  <2>1. {d.messages[i].sequence : i \in Chunk(d)} = (E + 1)..k
    <3>1. \A i \in (E + 1)..k : d.messages[i].sequence = i
      BY <1>2, <1>4, <1>5
    <3> QED
      BY <1>4, <3>1
  <2>2. d.messages[Max(Chunk(d))].sequence = k
    BY <1>2, <1>4, <1>5
  <2> QED
    BY <2>1, <2>2 DEF NextSummary
<1>7. s \in [version : {s.version}, end : {s.end}, content : {s.content}]
  BY DEF NextSummary
<1> HIDE DEF s, N, E
<1>8. s \in Summary
  <2>1. s.version \in Nat /\ s.end \in 0..MaxMessages
    BY <1>2, <1>4, <1>6, ContextAssumption
  <2>2. s.content \in SUBSET Numbers
    BY <1>2, <1>4, <1>6, ContextAssumption DEF Numbers
  <2> QED
    BY <1>7, <2>1, <2>2 DEF Summary
<1>9. ASSUME WindowHolds PROVE Covers(d, s)
  <2> SUFFICES ASSUME NEW i \in 1..N, i <= k, d.messages[i].prompt PROVE i \in s.content
    BY <1>2, <1>6 DEF Covers
  <2>1. CASE i <= E
    <3>1. Covers(d, LatestSummary(d))
      BY <1>1, <1>9, LatestIs DEF GoodDir
    <3>2. i \in LatestSummary(d).content
      BY <1>2, <2>1, <3>1 DEF Covers, Edge, E
    <3> QED
      BY <1>6, <3>2
  <2>2. CASE i > E
    BY <1>2, <1>4, <1>6, <2>2
  <2> QED
    BY <1>2, <2>1, <2>2
<1>10. ASSUME WindowHolds PROVE Short(d, k, f)
  <2>1. PromptReadable(d)
    BY DEF PromptReadable
  <2>2. PICK a : Leaves(d, a, f + 1)
    BY <1>10, <2>1 DEF GoodDir, Behind
  <2>3. /\ a \in E..N /\ N - a <= f + 1 /\ a - E < RefreshMessages
        /\ a - E <= 1 \/ Tokens(d)[a] < RefreshTokens
    BY <2>2 DEF Leaves, E, N
  <2>4. RefreshMessages <= ChunkMessages + 1 /\ RefreshTokens <= ChunkTokens + 1
    BY <1>10 DEF WindowHolds
  <2>5. {RefreshMessages, RefreshTokens, ChunkMessages, ChunkTokens} \subseteq Nat \ {0}
    BY ContextAssumption
  <2>6. CASE a = E
    <3>1. k \in k..N /\ N - k <= f /\ k - k < RefreshMessages /\ k - k <= 1
      BY <1>2, <1>4, <2>3, <2>5, <2>6
    <3> QED
      BY <3>1 DEF Short, N
  <2>7. CASE a # E
    <3>1. a \in (E + 1)..N /\ a - E <= ChunkMessages
      BY <1>2, <2>3, <2>4, <2>5, <2>7
    <3>2. a = E + 1 \/ Tokens(d)[a] <= ChunkTokens
      <4>1. CASE a - E <= 1
        BY <1>2, <3>1, <4>1
      <4>2. CASE Tokens(d)[a] < RefreshTokens
        <5>1. Tokens(d)[a] \in Nat
          <6>1. a \in 0..N
            BY <1>2, <2>3
          <6> QED
            BY <1>1, <6>1, TokensSteps DEF N
        <5> QED
          BY <2>4, <2>5, <4>2, <5>1
      <4> QED
        BY <2>3, <4>1, <4>2
    <3>3. a <= k
      BY <1>3, <3>1, <3>2 DEF ChunkEnds, E, N
    <3>4. RefreshMessages > 1
      BY <1>2, <2>3, <2>5, <3>1
    <3>5. CASE k = N
      <4>1. k \in k..N /\ N - k <= f /\ k - k < RefreshMessages /\ k - k <= 1
        BY <1>2, <1>4, <2>5, <3>5
      <4> QED
        BY <4>1 DEF Short, N
    <3>6. CASE k # N
      <4>1. /\ k + 1 \in k..N /\ N - (k + 1) <= f
            /\ (k + 1) - k < RefreshMessages /\ (k + 1) - k <= 1
        BY <1>2, <1>4, <2>3, <2>5, <3>1, <3>3, <3>4, <3>6
      <4> QED
        BY <4>1 DEF Short, N
    <3> QED
      BY <3>5, <3>6
  <2> QED
    BY <2>6, <2>7
<1>11. s.end <= Len(d.messages)
  BY <1>2, <1>4, <1>6 DEF N
<1> QED
  BY <1>6, <1>8, <1>9, <1>10, <1>11 DEF Follows, s

(* A compaction covers what its prompt told of, and leaves nothing.        *)
LEMMA CompactionFollows ==
    ASSUME NEW d, NEW f \in Nat, Numbered(d), NEW seen \in SUBSET Numbers,
           WindowHolds => Told(d, seen)
    PROVE  Follows(d, CompactionSummary(d, seen), f)
<1> DEFINE N == Len(d.messages)
           s == CompactionSummary(d, seen)
<1>1. N \in Nat /\ N <= MaxMessages /\ LatestSummary(d).version \in Nat
  BY EdgeIs, FewMessages
<1>2. LatestSequence(d) = N
  BY LatestSequenceIs
<1>3. s = [version |-> LatestSummary(d).version + 1, end |-> N, content |-> seen]
  BY <1>2 DEF CompactionSummary
<1> HIDE DEF s, N
<1>4. s.version = LatestSummary(d).version + 1 /\ s.end = N /\ s.content = seen
  BY <1>3
<1>5. s \in Summary
  BY <1>1, <1>3, ContextAssumption DEF Summary
<1>6. ASSUME WindowHolds PROVE Covers(d, s)
  BY <1>4, <1>6 DEF Covers, Told
<1>7. Short(d, N, f)
  <2>1. N \in N..N /\ N - N <= f /\ N - N < RefreshMessages /\ N - N <= 1
    BY <1>1, ContextAssumption
  <2> QED
    BY <2>1 DEF Short, N
<1>8. s.end <= Len(d.messages)
  BY <1>1, <1>4 DEF N
<1> QED
  BY <1>4, <1>5, <1>6, <1>7, <1>8 DEF Follows, s

-----------------------------------------------------------------------------
(* Stages at which an operation on c may be interrupted, after f faults.   *)

(* Nothing of a run is in memory.                                          *)
Quiet(m) == m.restored = FALSE /\ m.compacting = FALSE

(* What is in memory of another conversation than c stays there.           *)
Stays(m) ==
    /\ m.conversation = manager.conversation
    /\ m.restored = manager.restored /\ m.prompt = manager.prompt
    /\ m.compacting = manager.compacting /\ m.seen = manager.seen

(* The messages of a run, and the request for a compaction that is under   *)
(* way, tell of all that is stored.                                        *)
Owes(d, m) ==
    /\ m.restored => Told(d, m.prompt)
    /\ m.compacting => Told(d, m.seen)

(* The same, of a stage of an operation on c.                              *)
Tells(c, d, m) ==
    WindowHolds /\ ~Quiet(m) => IF m.conversation = c THEN Owes(d, m) ELSE Stays(m)

(* The journals that a crash may tear.                                     *)
Journals == {NoJournal, "messages", "summaries"}

(* The good stages.                                                        *)
GoodStages(c, f) ==
    {s \in [dir : Directory, manager : Manager, journal : Journals] :
        GoodDir(s.dir, f) /\ Tells(c, s.dir, s.manager)}

(* Each write of an operation may be the last, with one more fault.        *)
AllGood(c, stages) ==
    /\ stages \in Seq(GoodStages(c, faults + 1))
    /\ stages # <<>>
    /\ Last(stages) \in GoodStages(c, faults)

(* A good stage, by its parts.                                             *)
LEMMA GoodParts ==
    ASSUME NEW c, NEW f, NEW d, NEW m \in Manager, NEW j \in Journals,
           GoodDir(d, f), Tells(c, d, m)
    PROVE  Stage(d, m, j) \in GoodStages(c, f)
<1>1. d \in Directory
  BY DEF GoodDir, Numbered
<1>2. Stage(d, m, j) \in [dir : Directory, manager : Manager, journal : Journals]
  BY <1>1 DEF Stage
<1> QED
  BY <1>2, StageParts DEF GoodStages

(* The parts of a good stage.                                              *)
LEMMA PartsOfGood ==
    ASSUME NEW c, NEW f, NEW s \in GoodStages(c, f)
    PROVE  /\ s.dir \in Directory /\ s.manager \in Manager /\ s.journal \in Journals
           /\ GoodDir(s.dir, f) /\ Tells(c, s.dir, s.manager)
BY DEF GoodStages

(* A good stage is good with one more fault.                               *)
LEMMA GoodLater ==
    ASSUME NEW c, NEW f \in Nat
    PROVE  GoodStages(c, f) \subseteq GoodStages(c, f + 1)
<1> SUFFICES ASSUME NEW s \in GoodStages(c, f) PROVE s \in GoodStages(c, f + 1)
  OBVIOUS
<1>1. GoodDir(s.dir, f + 1)
  BY MoreFaults, PartsOfGood
<1> QED
  BY <1>1 DEF GoodStages

(* A manager without a run tells nothing.                                  *)
LEMMA QuietTells ==
    ASSUME NEW c, NEW d, NEW m, Quiet(m)
    PROVE  Tells(c, d, m)
BY DEF Tells

(* What is told of some messages is told of them in another directory.     *)
LEMMA TellsSame ==
    ASSUME NEW c, NEW d, NEW e, NEW m, Tells(c, d, m),
           \A seen : Told(e, seen) <=> Told(d, seen)
    PROVE  Tells(c, e, m)
BY DEF Tells, Owes

(* Writes, one after the other.                                            *)
LEMMA GoodInARow ==
    ASSUME NEW c, NEW S, NEW s \in Seq(S), NEW t \in Seq(S)
    PROVE  /\ s \o t \in Seq(S)
           /\ t # <<>> => s \o t # <<>> /\ Last(s \o t) = Last(t)
           /\ t = <<>> => s \o t = s
<1>1. s \o t \in Seq(S) /\ Len(s \o t) = Len(s) + Len(t) /\ Len(s) \in Nat /\ Len(t) \in Nat
  OBVIOUS
<1>2. ASSUME t # <<>> PROVE s \o t # <<>> /\ Last(s \o t) = Last(t)
  <2>1. Len(t) > 0
    BY <1>2
  <2>2. (s \o t)[Len(s) + Len(t)] = t[Len(t)]
    BY <1>1, <2>1
  <2>3. s \o t # <<>>
    BY <1>1, <2>1
  <2> QED
    BY <1>1, <2>2, <2>3 DEF Last
<1>3. ASSUME t = <<>> PROVE s \o t = s
  BY <1>3
<1> QED
  BY <1>1, <1>2, <1>3

-----------------------------------------------------------------------------
(* Operations in stages.                                                   *)

(* One write after another that is good.                                   *)
LEMMA ThenGood ==
    ASSUME NEW c, faults \in Nat, NEW s \in Seq(GoodStages(c, faults + 1)),
           NEW t, AllGood(c, t)
    PROVE  AllGood(c, s \o t)
BY GoodInARow DEF AllGood

(* ensure_conversation changes nothing that is read here.                  *)
LEMMA EnsureGood ==
    ASSUME NEW c, NEW f, NEW s \in GoodStages(c, f)
    PROVE  /\ Ensure(s) \in GoodStages(c, f)
           /\ Ensure(s).manager = s.manager
           /\ SameReading(s.dir, Ensure(s).dir)
           /\ Ensure(s).dir.torn = s.dir.torn
<1> DEFINE d == s.dir
           t == s.manager.title
           e == [d EXCEPT !.exists = TRUE, !.title = t]
<1>1. d \in Directory /\ s.manager \in Manager /\ GoodDir(d, f) /\ Tells(c, d, s.manager)
  BY PartsOfGood
<1>2. t \in Titles
  BY <1>1 DEF Manager
<1>3. Ensure(s) = Stage(e, s.manager, NoJournal)
  BY DEF Ensure
<1> HIDE DEF d, t
<1>4. e \in Directory /\ SameReading(d, e) /\ e.torn = d.torn
  BY <1>1, <1>2 DEF Directory, SameReading
<1> HIDE DEF e
<1>5. GoodDir(e, f) /\ \A seen : Told(e, seen) <=> Told(d, seen)
  BY <1>1, <1>4, ReadSame
<1>6. Tells(c, e, s.manager)
  BY <1>1, <1>5, TellsSame
<1>7. NoJournal \in Journals
  BY DEF Journals
<1> QED
  BY <1>1, <1>3, <1>4, <1>5, <1>6, <1>7, GoodParts, StageParts DEF d

(* What may follow the latest summary depends on what is read.             *)
LEMMA FollowsSame ==
    ASSUME NEW d, NEW e, NEW s, NEW f, SameReading(d, e), Follows(d, s, f)
    PROVE  Follows(e, s, f)
<1>1. e.messages = d.messages /\ LatestSummary(e) = LatestSummary(d)
  BY DEF SameReading, LatestSummary
<1> QED
  BY <1>1 DEF Follows, Covers, Short

(* add_summary.                                                            *)
LEMMA AddGood ==
    ASSUME faults \in Nat, NEW c, NEW s \in GoodStages(c, faults + 1), NEW summary,
           Follows(s.dir, summary, faults)
    PROVE  AllGood(c, AddSummary(s, summary))
<1> DEFINE d == s.dir
           m == s.manager
           longer == Append(d.summaries, summary)
           e == [d EXCEPT !.summaries = longer]
           g == [e EXCEPT !.latest = summary]
           first == Stage(e, m, "summaries")
           second == Stage(g, m, NoJournal)
<1>1. d \in Directory /\ m \in Manager /\ GoodDir(d, faults + 1) /\ Tells(c, d, m)
  BY PartsOfGood
<1>2. AddSummary(s, summary) = <<first, second>>
  BY DEF AddSummary
<1>3. summary \in Summary
  BY DEF Follows
<1>4. longer \in Seq(Summary)
  BY <1>1, <1>3, DirectoryParts
<1> HIDE DEF longer
<1>5. /\ e \in Directory /\ e.messages = d.messages /\ e.summaries = longer
      /\ e.latest = d.latest /\ e.torn = d.torn
  <2> HIDE DEF d
  <2> QED
    BY <1>1, <1>4 DEF Directory
<1> HIDE DEF e
<1>6. /\ g \in Directory /\ g.messages = d.messages /\ g.summaries = longer
      /\ g.latest = summary /\ g.torn = d.torn
  BY <1>3, <1>5 DEF Directory
<1> HIDE DEF g
<1>7. GoodDir(e, faults + 1)
  BY <1>1, <1>5, JournalGood DEF longer
<1>8. GoodDir(g, faults)
  BY <1>1, <1>6, LatestGood DEF longer
<1>9. Tells(c, e, m) /\ Tells(c, g, m)
  <2>1. \A seen : (Told(e, seen) <=> Told(d, seen)) /\ (Told(g, seen) <=> Told(d, seen))
    BY <1>5, <1>6 DEF Told
  <2> HIDE DEF d, m
  <2> QED
    BY <1>1, <2>1, TellsSame
<1>10. "summaries" \in Journals /\ NoJournal \in Journals
  BY DEF Journals
<1>11. first \in GoodStages(c, faults + 1) /\ second \in GoodStages(c, faults)
  <2> HIDE DEF m, d
  <2> QED
    BY <1>1, <1>7, <1>8, <1>9, <1>10, GoodParts
<1>12. second \in GoodStages(c, faults + 1)
  BY <1>11, GoodLater
<1> HIDE DEF first, second
<1>13. /\ <<first, second>> \in Seq(GoodStages(c, faults + 1))
       /\ <<first, second>> # <<>> /\ Last(<<first, second>>) = second
  BY <1>11, <1>12 DEF Last
<1> QED
  BY <1>2, <1>11, <1>13 DEF AllGood

(* maybe_refresh_summary.                                                  *)
LEMMA RefreshGood ==
    ASSUME faults \in Nat, NEW c, NEW s \in GoodStages(c, faults + 1),
           "messages" \notin s.dir.torn
    PROVE  AllGood(c, RefreshSummary(s))
<1> DEFINE d == s.dir
           ensured == Ensure(s)
           due == SummaryReadable(d) /\ RefreshDue(d)
           rest == IF due THEN AddSummary(ensured, NextSummary(d)) ELSE <<>>
<1>1. GoodDir(d, faults + 1)
  BY PartsOfGood
<1>2. /\ ensured \in GoodStages(c, faults + 1) /\ ensured.manager = s.manager
      /\ SameReading(d, ensured.dir)
  BY EnsureGood
<1>3. RefreshSummary(s) = <<ensured>> \o rest
  BY DEF RefreshSummary
<1> HIDE DEF d, ensured
<1>4. <<ensured>> \in Seq(GoodStages(c, faults + 1))
  BY <1>2
<1>5. CASE due
  <2>1. Follows(d, NextSummary(d), faults)
    BY <1>1, <1>5, NextFollows DEF d
  <2>2. AllGood(c, AddSummary(ensured, NextSummary(d)))
    BY <1>2, <2>1, FollowsSame, AddGood
  <2> QED
    BY <1>3, <1>4, <1>5, <2>2, ThenGood
<1>6. CASE ~due
  <2>1. GoodDir(d, faults)
    BY <1>1, <1>6, NothingDue
  <2>2. /\ ensured.dir \in Directory
        /\ ensured \in [dir : Directory, manager : Manager, journal : Journals]
    BY <1>2 DEF GoodStages
  <2>3. GoodDir(ensured.dir, faults)
    BY <1>2, <2>1, <2>2, ReadSame
  <2>4. ensured \in GoodStages(c, faults)
    BY <1>2, <2>2, <2>3 DEF GoodStages
  <2>5. /\ <<ensured>> \o <<>> = <<ensured>>
        /\ <<ensured>> # <<>> /\ Last(<<ensured>>) = ensured
    BY <1>4 DEF Last
  <2> QED
    BY <1>3, <1>4, <1>6, <2>4, <2>5 DEF AllGood
<1> QED
  BY <1>5, <1>6

(* A message is added to the run's messages before it is stored.           *)
LEMMA TellTells ==
    ASSUME NEW m \in Manager, NEW d, d.messages \in Seq(Message), NEW e, NEW message,
           e.messages = Append(d.messages, message), message.prompt \in BOOLEAN,
           NEW n \in Numbers, n = Len(d.messages) + 1, Tells(m.conversation, d, m),
           NEW told, message.prompt => told = Tell(m, n), ~message.prompt => told = m
    PROVE  told \in Manager /\ Tells(m.conversation, e, told)
<1> DEFINE prompt == IF m.restored THEN m.prompt \cup {n} ELSE m.prompt
           seen == IF m.compacting THEN m.seen \cup {n} ELSE m.seen
           after == [m EXCEPT !.prompt = prompt, !.seen = seen]
<1>1. Tell(m, n) = after
  BY DEF Tell
<1>2. prompt \in SUBSET Numbers /\ seen \in SUBSET Numbers
  BY DEF Manager
<1>3. /\ m.restored => prompt = m.prompt \cup {n}
      /\ m.compacting => seen = m.seen \cup {n}
  OBVIOUS
<1> HIDE DEF prompt, seen
<1>4. /\ after \in Manager /\ after.conversation = m.conversation
      /\ after.restored = m.restored /\ after.compacting = m.compacting
      /\ after.prompt = prompt /\ after.seen = seen
  BY <1>2 DEF Manager
<1> HIDE DEF after
<1>5. ASSUME NEW x, NEW y, Told(d, x), message.prompt => n \in y, x \subseteq y
      PROVE  Told(e, y)
  <2> SUFFICES ASSUME NEW i \in DOMAIN e.messages, e.messages[i].prompt
               PROVE  i \in y
    BY DEF Told
  <2>1. Len(d.messages) \in Nat /\ DOMAIN d.messages = 1..Len(d.messages)
    OBVIOUS
  <2>2. i \in 1..n
    BY <2>1
  <2>3. CASE i = n
    <3>1. e.messages[i] = message
      BY <2>3
    <3> QED
      BY <1>5, <2>3, <3>1
  <2>4. CASE i # n
    <3>1. i \in DOMAIN d.messages
      BY <2>1, <2>2, <2>4
    <3>2. e.messages[i] = d.messages[i]
      BY <2>1, <2>2, <2>4
    <3> QED
      BY <1>5, <3>1, <3>2 DEF Told
  <2> QED
    BY <2>3, <2>4
<1>6. told \in Manager /\ told.conversation = m.conversation
      /\ told.restored = m.restored /\ told.compacting = m.compacting
  BY <1>1, <1>4
<1>7. ASSUME WindowHolds, ~Quiet(told) PROVE Owes(e, told)
  <2>1. Owes(d, m)
    BY <1>6, <1>7 DEF Tells, Quiet
  <2>2. CASE message.prompt
    <3>1. told = after
      BY <1>1, <2>2
    <3>2. ASSUME m.restored PROVE Told(e, prompt)
      BY <1>3, <1>5, <2>1, <3>2 DEF Owes
    <3>3. ASSUME m.compacting PROVE Told(e, seen)
      BY <1>3, <1>5, <2>1, <3>3 DEF Owes
    <3> QED
      BY <1>4, <3>1, <3>2, <3>3 DEF Owes
  <2>3. CASE ~message.prompt
    <3>1. told = m
      BY <2>3
    <3> QED
      BY <1>5, <2>1, <2>3, <3>1 DEF Owes
  <2> QED
    BY <2>2, <2>3
<1>8. Tells(m.conversation, e, told)
  BY <1>6, <1>7 DEF Tells
<1> QED
  BY <1>6, <1>8

(* append_message.                                                         *)
LEMMA StoreGood ==
    ASSUME faults \in Nat, NEW c, NEW s \in GoodStages(c, faults),
           "messages" \notin s.dir.torn, s.manager.conversation = c,
           NEW kind \in MessageKinds, Len(s.dir.messages) < MaxMessages
    PROVE  AllGood(c, StoreMessage(s, kind))
<1> DEFINE d == s.dir
           m == s.manager
           message == [sequence |-> LatestSequence(d) + 1, tokens |-> kind.tokens,
                       prompt |-> kind.prompt]
           longer == Append(d.messages, message)
           e == [d EXCEPT !.messages = longer]
           n == LatestSequence(d) + 1
           told == IF kind.prompt THEN Tell(m, n) ELSE m
           journaled == Stage(e, told, "messages")
           title == IF journaled.dir.title = "" /\ kind.user THEN "from first message"
                    ELSE journaled.dir.title
           g == [journaled.dir EXCEPT !.title = title]
           stored == Stage(g, journaled.manager, NoJournal)
<1>1. d \in Directory /\ m \in Manager /\ GoodDir(d, faults) /\ Tells(c, d, m)
  BY PartsOfGood
<1>2. StoreMessage(s, kind) = <<journaled, stored>> \o RefreshSummary(stored)
  BY DEF StoreMessage
<1>3. message \in Message /\ message.sequence = Len(d.messages) + 1 /\ message.tokens = kind.tokens
  <2>1. LatestSequence(d) = Len(d.messages) /\ Len(d.messages) \in Nat
    BY <1>1, LatestSequenceIs, EdgeIs DEF GoodDir
  <2>2. Len(d.messages) + 1 \in Numbers
    BY <2>1, ContextAssumption DEF Numbers
  <2>3. kind.tokens \in Nat /\ kind.prompt \in BOOLEAN
    BY ContextAssumption
  <2> QED
    BY <2>1, <2>2, <2>3 DEF Message
<1>18. n = Len(d.messages) + 1 /\ n \in Numbers /\ message.prompt = kind.prompt
  <2>1. message.prompt = kind.prompt /\ message.sequence = n
    OBVIOUS
  <2> HIDE DEF message, n
  <2> QED
    BY <1>3, <2>1 DEF Message
<1> HIDE DEF message, n
<1>4. longer \in Seq(Message)
  BY <1>1, <1>3, DirectoryParts
<1> HIDE DEF longer
<1>5. /\ e \in Directory /\ e.messages = longer /\ e.summaries = d.summaries
      /\ e.latest = d.latest /\ e.torn = d.torn
  <2> HIDE DEF d
  <2> QED
    BY <1>1, <1>4 DEF Directory
<1> HIDE DEF e
<1>6. GoodDir(e, faults + 1)
  BY <1>1, <1>3, <1>5, AppendGood DEF longer
<1>7. journaled.dir = e /\ journaled.manager = told
  BY StageParts
<1>8. "messages" \in Journals /\ NoJournal \in Journals
  BY DEF Journals
<1>9. told \in Manager /\ Tells(c, e, told)
  <2> HIDE DEF m, d
  <2>1. d.messages \in Seq(Message)
    BY <1>1, DirectoryParts
  <2>2. e.messages = Append(d.messages, message)
    BY <1>5 DEF longer
  <2>3. m.conversation = c /\ message.prompt \in BOOLEAN
    BY <1>18, ContextAssumption DEF m
  <2>4. told = IF message.prompt THEN Tell(m, n) ELSE m
    BY <1>18
  <2>5. Tells(m.conversation, d, m)
    BY <1>1, <2>3
  <2>6. /\ message.prompt => told = Tell(m, n)
        /\ ~message.prompt => told = m
    BY <2>4
  <2> HIDE DEF told, message, e, n
  <2>7. m \in Manager /\ n \in Numbers
    BY <1>1, <1>18
  <2>8. n = Len(d.messages) + 1 /\ message.prompt \in BOOLEAN
    BY <1>18, <2>3
  <2>9. told \in Manager /\ Tells(m.conversation, e, told)
    BY <2>1, <2>2, <2>5, <2>6, <2>7, <2>8, TellTells, ZenonT(60)
  <2> QED
    BY <2>3, <2>9
<1> HIDE DEF m, d, told
<1>10. journaled \in GoodStages(c, faults + 1)
  BY <1>1, <1>6, <1>8, <1>9, GoodParts
<1> HIDE DEF journaled
<1>11. title \in Titles
  BY <1>5, <1>7 DEF Directory, Titles
<1> HIDE DEF title
<1>12. g \in Directory /\ SameReading(e, g) /\ g.torn = e.torn
  BY <1>5, <1>7, <1>11 DEF Directory, SameReading
<1> HIDE DEF g
<1>13. GoodDir(g, faults + 1)
  BY <1>6, <1>12, ReadSame
<1>14. stored \in GoodStages(c, faults + 1) /\ stored.dir = g
  <2>1. Tells(c, g, told)
    <3>1. \A seen : Told(g, seen) <=> Told(e, seen)
      BY <1>12 DEF Told, SameReading
    <3> QED
      BY <1>9, <3>1, TellsSame
  <2> QED
    BY <1>7, <1>8, <1>9, <1>13, <2>1, GoodParts, StageParts
<1> HIDE DEF stored
<1>15. "messages" \notin stored.dir.torn
  BY <1>5, <1>12, <1>14 DEF d, m
<1>16. AllGood(c, RefreshSummary(stored))
  BY <1>14, <1>15, RefreshGood
<1>17. <<journaled, stored>> \in Seq(GoodStages(c, faults + 1))
  BY <1>10, <1>14
<1> QED
  BY <1>2, <1>16, <1>17, ThenGood

-----------------------------------------------------------------------------
(* The invariant: types, and what each directory and the compaction that   *)
(* is under way owe to the messages.                                       *)
CoverInv ==
    /\ ContextTypeOK
    /\ \A c \in Conversations : GoodDir(disk[c], faults)
    /\ WindowHolds =>
          \A c \in Conversations : manager.conversation = c => Owes(disk[c], manager)

(* Without a run nothing is owed.                                          *)
LEMMA QuietOwes ==
    ASSUME NEW m \in Manager, Quiet(m)
    PROVE  \A d : Owes(d, m)
BY DEF Owes, Quiet

(* A stage takes effect.                                                   *)
LEMMA StageHolds ==
    ASSUME CoverInv, NEW c \in Conversations, NEW d, NEW m \in Manager,
           NEW f \in {faults, faults + 1}, f \in 0..MaxFaults,
           GoodDir(d, f), Tells(c, d, m),
           disk' = [disk EXCEPT ![c] = d], manager' = m, faults' = f,
           runs' \in [Runs -> RunFile]
    PROVE  CoverInv'
<1> DEFINE n == disk'
<1>1. disk \in [Conversations -> Directory] /\ d \in Directory /\ faults \in Nat
  BY ContextAssumption DEF CoverInv, ContextTypeOK, GoodDir, Numbered
<1>2. /\ n \in [Conversations -> Directory] /\ n[c] = d
      /\ \A e \in Conversations : e # c => n[e] = disk[e]
  BY <1>1
<1>3. \A e \in Conversations : GoodDir(n[e], f)
  <2> SUFFICES ASSUME NEW e \in Conversations PROVE GoodDir(n[e], f)
    OBVIOUS
  <2>1. CASE e = c
    BY <1>2, <2>1
  <2>2. CASE e # c
    <3>1. GoodDir(n[e], faults)
      BY <1>2, <2>2 DEF CoverInv
    <3> QED
      BY <1>1, <3>1, MoreFaults
  <2> QED
    BY <2>1, <2>2
<1>4. ASSUME WindowHolds, ~Quiet(m), NEW e \in Conversations, m.conversation = e
      PROVE  Owes(n[e], m)
  <2>1. CASE e = c
    BY <1>2, <1>4, <2>1 DEF Tells
  <2>2. CASE e # c
    <3>1. Stays(m)
      BY <1>4, <2>2 DEF Tells
    <3>2. Owes(disk[e], manager)
      BY <1>4, <3>1 DEF CoverInv, Stays
    <3> QED
      BY <1>2, <2>2, <3>1, <3>2 DEF Owes, Stays
  <2> QED
    BY <2>1, <2>2
<1>9. ASSUME WindowHolds, NEW e \in Conversations, m.conversation = e
      PROVE  Owes(n[e], m)
  BY <1>4, <1>9, QuietOwes
<1>5. ContextTypeOK'
  BY <1>2 DEF ContextTypeOK
<1> HIDE DEF n
<1>6. (\A e \in Conversations : GoodDir(disk[e], faults))'
  BY <1>3 DEF n
<1>7. (WindowHolds =>
          \A e \in Conversations : manager.conversation = e => Owes(disk[e], manager))'
  BY <1>9 DEF n, Owes, Told
<1> QED
  BY <1>5, <1>6, <1>7 DEF CoverInv

(* An operation takes effect, as far as it gets.                           *)
LEMMA PerformHolds ==
    ASSUME CoverInv, NEW c \in Conversations, NEW stages, AllGood(c, stages),
           Perform(c, stages), runs' \in [Runs -> RunFile]
    PROVE  CoverInv'
<1>1. faults \in Nat /\ faults <= MaxFaults /\ MaxFaults \in Nat /\ faults \in 0..MaxFaults
  BY ContextAssumption DEF CoverInv, ContextTypeOK
<1>2. stages \in Seq(GoodStages(c, faults + 1)) /\ Last(stages) \in GoodStages(c, faults)
  BY DEF AllGood
<1>3. CASE /\ disk' = [disk EXCEPT ![c] = Last(stages).dir]
           /\ manager' = Last(stages).manager
           /\ UNCHANGED faults
  <2>1. /\ Last(stages).manager \in Manager /\ GoodDir(Last(stages).dir, faults)
        /\ Tells(c, Last(stages).dir, Last(stages).manager)
    BY <1>2, PartsOfGood
  <2> QED
    BY <1>1, <1>3, <2>1, StageHolds
<1>4. ASSUME NEW k \in Failures(stages),
             faults' = faults + 1,
             \E torn \in SUBSET ({stages[k + 1].journal} \ {NoJournal}) :
                disk' = [disk EXCEPT ![c] = [stages[k].dir EXCEPT !.torn = @ \cup torn]],
             manager' \in {stages[k].manager, AtRest}
      PROVE  CoverInv'
  <2>1. k \in 1..(Len(stages) - 1) /\ faults < MaxFaults /\ faults + 1 \in 0..MaxFaults
    BY <1>1 DEF Failures
  <2>2. /\ stages[k] \in GoodStages(c, faults + 1)
        /\ stages[k + 1] \in GoodStages(c, faults + 1)
    BY <1>2, <2>1
  <2>3. PICK torn \in SUBSET ({stages[k + 1].journal} \ {NoJournal}) :
           disk' = [disk EXCEPT ![c] = [stages[k].dir EXCEPT !.torn = @ \cup torn]]
    BY <1>4
  <2> DEFINE s == stages[k]
             d == s.dir
             e == [d EXCEPT !.torn = @ \cup torn]
  <2>4. /\ d \in Directory /\ s.manager \in Manager /\ GoodDir(d, faults + 1)
        /\ Tells(c, d, s.manager)
    BY <2>2, PartsOfGood
  <2>5. torn \subseteq {"messages", "summaries"}
    <3>1. stages[k + 1].journal \in Journals
      BY <2>2, PartsOfGood
    <3> QED
      BY <2>3, <3>1 DEF Journals
  <2>6. disk' = [disk EXCEPT ![c] = e]
    BY <2>3
  <2> HIDE DEF d
  <2>7. e \in Directory /\ SameReading(d, e)
    BY <2>4, <2>5 DEF Directory, SameReading
  <2> HIDE DEF e
  <2>8. GoodDir(e, faults + 1) /\ \A seen : Told(e, seen) <=> Told(d, seen)
    BY <2>4, <2>7, ReadSame
  <2>9. Tells(c, e, s.manager)
    BY <2>4, <2>8, TellsSame
  <2>10. AtRest \in Manager /\ Tells(c, e, AtRest)
    BY QuietTells DEF AtRest, Manager, Quiet, Titles
  <2> DEFINE m == manager'
  <2>11. m \in Manager /\ Tells(c, e, m)
    BY <1>4, <2>4, <2>9, <2>10
  <2> HIDE DEF m
  <2> QED
    BY <1>4, <2>1, <2>6, <2>8, <2>11, StageHolds DEF m
<1> QED
  BY <1>3, <1>4 DEF Perform

(* Two stages that are both good.                                          *)
LEMMA TwoGood ==
    ASSUME faults \in Nat, NEW c, NEW s \in GoodStages(c, faults), NEW t \in GoodStages(c, faults)
    PROVE  AllGood(c, <<s, t>>)
<1>1. s \in GoodStages(c, faults + 1) /\ t \in GoodStages(c, faults + 1)
  BY GoodLater
<1>2. /\ <<s, t>> \in Seq(GoodStages(c, faults + 1)) /\ <<s, t>> # <<>>
      /\ Last(<<s, t>>) = t
  BY <1>1 DEF Last
<1> QED
  BY <1>2 DEF AllGood

(* Before the first write.                                                 *)
LEMMA DirectlyGood ==
    ASSUME CoverInv, NEW c \in Conversations, NEW m \in Manager, Tells(c, disk[c], m)
    PROVE  /\ Directly(c, m) \in GoodStages(c, faults)
           /\ Directly(c, m).dir = disk[c] /\ Directly(c, m).manager = m
<1>1. GoodDir(disk[c], faults) /\ NoJournal \in Journals
  BY DEF CoverInv, Journals
<1> QED
  BY <1>1, GoodParts, StageParts DEF Directly

(* As long as the conversation and what is in memory of its run stay.      *)
LEMMA SameTells ==
    ASSUME CoverInv, NEW c \in Conversations, NEW m, Stays(m)
    PROVE  Tells(c, disk[c], m)
BY DEF CoverInv, Tells, Stays, Owes

(* Nothing changes but the manager, which is left without a run.           *)
LEMMA ManagerHolds ==
    ASSUME CoverInv, NEW m \in Manager, Quiet(m), manager' = m,
           disk' = disk, faults' \in {faults, faults + 1}, faults' \in 0..MaxFaults,
           runs' \in [Runs -> RunFile]
    PROVE  CoverInv'
<1> DEFINE f == faults'
<1>4. faults \in Nat /\ \A c \in Conversations : GoodDir(disk[c], faults)
  BY ContextAssumption DEF CoverInv, ContextTypeOK
<1>5. \A c \in Conversations : GoodDir(disk[c], f)
  <2>1. f \in {faults, faults + 1}
    OBVIOUS
  <2> HIDE DEF f
  <2> QED
    BY <1>4, <2>1, MoreFaults
<1>1. (\A c \in Conversations : GoodDir(disk[c], faults))'
  BY <1>5
<1>2. (WindowHolds =>
          \A c \in Conversations : manager.conversation = c => Owes(disk[c], manager))'
  BY QuietOwes
<1>3. ContextTypeOK'
  BY DEF CoverInv, ContextTypeOK
<1> QED
  BY <1>1, <1>2, <1>3 DEF CoverInv

(* The types, and no compaction without a run.                             *)
LEMMA CoverParts ==
    ASSUME TitleInv, CoverInv
    PROVE  /\ manager \in Manager /\ runs \in [Runs -> RunFile]
           /\ disk \in [Conversations -> Directory] /\ faults \in Nat
           /\ manager.run = NoRun => Quiet(manager)
           /\ \A c \in Conversations : disk[c].title \in Titles
<1>1. manager \in Manager /\ disk \in [Conversations -> Directory] /\ faults \in Nat
  BY ContextAssumption DEF CoverInv, ContextTypeOK
<1>2. manager.run = NoRun => Quiet(manager)
  BY <1>1 DEF Manager, TitleInv, Attached, Quiet
<1>3. \A c \in Conversations : disk[c].title \in Titles
  BY <1>1 DEF Directory
<1> QED
  BY <1>1, <1>2, <1>3 DEF CoverInv, ContextTypeOK

-----------------------------------------------------------------------------
(* Operations.                                                             *)

(* A new conversation.                                                     *)
LEMMA StartHolds ==
    ASSUME TitleInv, CoverInv, StartNewConversation
    PROVE  CoverInv'
<1>1. PICK c \in Conversations :
        LET s == Directly(c, [manager EXCEPT !.conversation = c, !.title = ""])
        IN  Perform(c, <<s, Ensure(s)>>)
  BY DEF StartNewConversation
<1> DEFINE m == [manager EXCEPT !.conversation = c, !.title = ""]
           s == Directly(c, m)
<1>2. Perform(c, <<s, Ensure(s)>>)
  BY <1>1
<1>3. manager.run = NoRun /\ runs' = runs
  BY DEF StartNewConversation
<1>4. m \in Manager /\ Quiet(m)
  BY <1>3, CoverParts DEF Manager, Titles, Quiet
<1> HIDE DEF m
<1>5. s \in GoodStages(c, faults)
  BY <1>4, QuietTells, DirectlyGood
<1> HIDE DEF s
<1>6. AllGood(c, <<s, Ensure(s)>>)
  BY <1>5, EnsureGood, TwoGood, CoverParts
<1> QED
  BY <1>2, <1>3, <1>6, PerformHolds, CoverParts

(* set_active_workspace reads the conversation that is active, or any one  *)
(* while there is no run.                                                  *)
LEMMA WorkspaceGood ==
    ASSUME TitleInv, CoverInv, NEW c \in Conversations, manager.run = NoRun \/ c = Active
    PROVE  /\ Directly(c, SetActiveWorkspace(c)) \in GoodStages(c, faults)
           /\ SetActiveWorkspace(c) \in Manager
           /\ Quiet(manager) => Quiet(SetActiveWorkspace(c))
           /\ Directly(c, SetActiveWorkspace(c)).manager = SetActiveWorkspace(c)
<1> DEFINE m == SetActiveWorkspace(c)
<1>1. /\ m \in Manager /\ m.conversation = c
      /\ m.compacting = manager.compacting /\ m.seen = manager.seen
      /\ m.restored = manager.restored /\ m.prompt = manager.prompt
  BY CoverParts DEF Manager, SetActiveWorkspace
<1>2. Tells(c, disk[c], m)
  <2> HIDE DEF m
  <2>1. CASE manager.run = NoRun
    BY <1>1, <2>1, CoverParts, QuietTells DEF Quiet
  <2>2. CASE c = Active
    BY <1>1, <2>2, SameTells DEF Active, Stays
  <2> QED
    BY <2>1, <2>2
<1> HIDE DEF m
<1> QED
  BY <1>1, <1>2, DirectlyGood DEF m, Quiet

(* A conversation is loaded.                                               *)
LEMMA RestoreHolds ==
    ASSUME TitleInv, CoverInv, RestoreChat
    PROVE  CoverInv'
<1>1. PICK c \in Conversations :
        /\ manager.run = NoRun \/ c = Active
        /\ LET s == Directly(c, SetActiveWorkspace(c)) IN Perform(c, <<s, Ensure(s)>>)
  BY DEF RestoreChat
<1> DEFINE s == Directly(c, SetActiveWorkspace(c))
<1>2. Perform(c, <<s, Ensure(s)>>) /\ runs' = runs
  BY <1>1 DEF RestoreChat
<1>3. s \in GoodStages(c, faults)
  BY <1>1, WorkspaceGood
<1> HIDE DEF s
<1>4. AllGood(c, <<s, Ensure(s)>>)
  BY <1>3, EnsureGood, TwoGood, CoverParts
<1> QED
  BY <1>2, <1>4, PerformHolds, CoverParts

(* The user renames a conversation.                                        *)
LEMMA RenameHolds ==
    ASSUME TitleInv, CoverInv, RenameConversation
    PROVE  CoverInv'
<1>1. PICK c \in Conversations :
        /\ runs' = runs
        /\ LET renamed == [disk[c] EXCEPT !.title = "by user", !.renamed = TRUE]
               cached == IF c # Active THEN manager
                         ELSE [manager EXCEPT !.title = "by user"]
           IN  Perform(c, <<Directly(c, manager), Stage(renamed, cached, NoJournal)>>)
  BY DEF RenameConversation
<1> DEFINE renamed == [disk[c] EXCEPT !.title = "by user", !.renamed = TRUE]
           cached == IF c # Active THEN manager ELSE [manager EXCEPT !.title = "by user"]
           here == Directly(c, manager)
           now == Stage(renamed, cached, NoJournal)
<1>2. Perform(c, <<here, now>>)
  BY <1>1
<1>3. cached \in Manager /\ Stays(cached) /\ Stays(manager)
  BY CoverParts DEF Manager, Titles, Stays
<1> HIDE DEF cached
<1>4. disk[c] \in Directory
  BY CoverParts
<1>5. renamed \in Directory /\ SameReading(disk[c], renamed)
  BY <1>4 DEF Directory, Titles, SameReading
<1> HIDE DEF renamed
<1>6. GoodDir(renamed, faults) /\ \A seen : Told(renamed, seen) <=> Told(disk[c], seen)
  BY <1>5, ReadSame DEF CoverInv
<1>7. Tells(c, disk[c], cached) /\ Tells(c, disk[c], manager)
  BY <1>3, SameTells
<1>8. Tells(c, renamed, cached)
  BY <1>6, <1>7, TellsSame
<1>9. NoJournal \in Journals
  BY DEF Journals
<1>10. now \in GoodStages(c, faults)
  BY <1>3, <1>6, <1>8, <1>9, GoodParts
<1>11. here \in GoodStages(c, faults)
  BY <1>7, DirectlyGood, CoverParts
<1> HIDE DEF now, here
<1> QED
  BY <1>1, <1>2, <1>10, <1>11, TwoGood, PerformHolds, CoverParts

(* An empty directory owes nothing.                                        *)
LEMMA EmptyGood == \A f \in Nat : GoodDir(EmptyDirectory, f)
<1> DEFINE d == EmptyDirectory
<1>1. /\ d.messages = <<>> /\ d.summaries = <<>> /\ d.latest = NoSummary /\ d.torn = {}
      /\ d.exists = FALSE /\ d.title = "" /\ d.renamed = FALSE
  BY DEF EmptyDirectory
<1>2. NoSummary \in Summary
  BY ContextAssumption DEF NoSummary, Summary
<1>3. d \in Directory
  <2>1. /\ d = [exists |-> FALSE, title |-> "", messages |-> <<>>, summaries |-> <<>>,
                latest |-> NoSummary, torn |-> {}, renamed |-> FALSE]
    BY DEF EmptyDirectory
  <2>2. <<>> \in Seq(Message) /\ <<>> \in Seq(Summary)
    OBVIOUS
  <2>3. "" \in Titles /\ {} \in SUBSET {"messages", "summaries"} /\ FALSE \in BOOLEAN
    BY DEF Titles
  <2> HIDE DEF d
  <2> QED
    BY <1>2, <2>1, <2>2, <2>3 DEF Directory
<1>4. NoSummary.version = 0 /\ NoSummary.end = 0
  BY DEF NoSummary
<1> HIDE DEF d
<1>5. /\ Len(d.messages) = 0 /\ Len(d.summaries) = 0
      /\ DOMAIN d.messages = {} /\ DOMAIN d.summaries = {}
  <2>1. Len(<<>>) = 0 /\ 1..0 = {}
    OBVIOUS
  <2>2. Len(d.messages) = 0 /\ Len(d.summaries) = 0
    BY <1>1, <2>1
  <2> QED
    BY <1>3, <2>1, <2>2, DirectoryParts
<1>6. Stored(d) = {NoSummary}
  BY <1>1, <1>5 DEF Stored, ToSet
<1>7. Numbered(d)
  BY <1>3, <1>4, <1>5, <1>6 DEF Numbered
<1>8. \A s \in Stored(d) : Covers(d, s)
  BY <1>5 DEF Covers
<1>9. \A f \in Nat : Behind(d, f)
  <2> SUFFICES ASSUME NEW f \in Nat PROVE Leaves(d, 0, f)
    BY DEF Behind
  <2>1. Edge(d) \in 0..0
    BY <1>5, <1>7, EdgeIs
  <2> QED
    BY <1>5, <2>1, ContextAssumption DEF Leaves
<1>10. \A f \in Nat : GoodDir(d, f)
  BY <1>7, <1>8, <1>9 DEF GoodDir
<1> QED
  BY <1>10 DEF d

(* A conversation is deleted.                                              *)
LEMMA DeleteHolds ==
    ASSUME TitleInv, CoverInv, DeleteConversation
    PROVE  CoverInv'
<1>1. manager.run = NoRun
  BY DEF DeleteConversation
<1>2. PICK c \in Conversations :
        /\ LET gone == IF c # Active THEN manager
                       ELSE [manager EXCEPT !.conversation = NoConversation, !.title = ""]
           IN  Perform(c, <<Directly(c, manager), Stage(EmptyDirectory, gone, NoJournal)>>)
        /\ \E removed \in SUBSET {r \in Runs : runs[r].conversation = c} :
            runs' = [r \in Runs |-> IF r \in removed THEN NoRunFile ELSE runs[r]]
  BY DEF DeleteConversation
<1> DEFINE gone == IF c # Active THEN manager
                   ELSE [manager EXCEPT !.conversation = NoConversation, !.title = ""]
           here == Directly(c, manager)
           now == Stage(EmptyDirectory, gone, NoJournal)
<1>3. Perform(c, <<here, now>>)
  BY <1>2
<1>4. gone \in Manager /\ Quiet(gone)
  BY <1>1, CoverParts DEF Manager, Titles, Quiet
<1> HIDE DEF gone
<1>5. now \in GoodStages(c, faults)
  <2>1. GoodDir(EmptyDirectory, faults) /\ NoJournal \in Journals
    BY EmptyGood, CoverParts DEF Journals
  <2> QED
    BY <1>4, <2>1, QuietTells, GoodParts
<1>6. here \in GoodStages(c, faults)
  BY <1>1, QuietTells, DirectlyGood, CoverParts
<1> HIDE DEF here, now
<1>7. runs' \in [Runs -> RunFile]
  <2>1. NoRunFile \in RunFile
    BY DEF NoRunFile, RunFile
  <2> QED
    BY <1>2, <2>1, CoverParts
<1> QED
  BY <1>3, <1>5, <1>6, <1>7, TwoGood, PerformHolds, CoverParts

(* A run begins.                                                           *)
LEMMA BeginHolds ==
    ASSUME TitleInv, CoverInv, BeginRun
    PROVE  CoverInv'
<1>1. Active \in Conversations /\ manager.run = NoRun
  BY DEF BeginRun, TitleInv, Attached, Active
<1>2. PICK r \in Runs :
        LET s == Directly(Active, SetActiveWorkspace(Active))
            begun == [s.manager EXCEPT !.activeRuns = {r}, !.run = r]
        IN  /\ Perform(Active, <<s, Ensure(s), [Ensure(s) EXCEPT !.manager = begun]>>)
            /\ runs' = IF manager'.run = r
                       THEN [runs EXCEPT ![r] = [status |-> "running", conversation |-> Active]]
                       ELSE runs
  BY DEF BeginRun
<1> DEFINE s == Directly(Active, SetActiveWorkspace(Active))
           begun == [s.manager EXCEPT !.activeRuns = {r}, !.run = r]
           e == Ensure(s)
           last == [e EXCEPT !.manager = begun]
<1>3. Perform(Active, <<s, e, last>>)
  BY <1>2
<1>4. s \in GoodStages(Active, faults) /\ s.manager \in Manager /\ Quiet(s.manager)
  BY <1>1, WorkspaceGood, CoverParts
<1> HIDE DEF s
<1>5. e \in GoodStages(Active, faults)
  BY <1>4, EnsureGood
<1>6. begun \in Manager /\ Quiet(begun)
  BY <1>4 DEF Manager, Quiet
<1> HIDE DEF e, begun
<1>7. last \in GoodStages(Active, faults)
  <2>1. /\ e \in [dir : Directory, manager : Manager, journal : Journals]
        /\ GoodDir(e.dir, faults)
    BY <1>5 DEF GoodStages
  <2>2. last \in [dir : Directory, manager : Manager, journal : Journals]
    BY <1>6, <2>1
  <2>3. last.dir = e.dir /\ last.manager = begun
    BY <2>1
  <2> HIDE DEF last
  <2>4. Tells(Active, e.dir, begun)
    BY <1>6, QuietTells
  <2> QED
    BY <2>1, <2>2, <2>3, <2>4 DEF GoodStages
<1> HIDE DEF last
<1>8. AllGood(Active, <<s, e, last>>)
  <2>1. /\ s \in GoodStages(Active, faults + 1) /\ e \in GoodStages(Active, faults + 1)
        /\ last \in GoodStages(Active, faults + 1)
    BY <1>4, <1>5, <1>7, GoodLater, CoverParts
  <2>2. /\ <<s, e, last>> \in Seq(GoodStages(Active, faults + 1)) /\ <<s, e, last>> # <<>>
        /\ Last(<<s, e, last>>) = last
    BY <2>1 DEF Last
  <2> QED
    BY <1>7, <2>2 DEF AllGood
<1>9. runs' \in [Runs -> RunFile]
  <2>1. [status |-> "running", conversation |-> Active] \in RunFile
    BY <1>1 DEF RunFile
  <2> QED
    BY <1>2, <2>1, CoverParts
<1> QED
  BY <1>1, <1>3, <1>8, <1>9, PerformHolds

(* Nothing joined to a sequence leaves it as it is.                        *)
LEMMA NothingMore ==
    ASSUME NEW S, NEW s \in Seq(S)
    PROVE  s \o <<>> = s
  OBVIOUS

(* The request that follows a superseded compaction tells as much as the   *)
(* messages of the run.                                                    *)
LEMMA NextRequestTells ==
    ASSUME TitleInv, CoverInv, Active \in Conversations
    PROVE  LET next == IF manager.compacting THEN [manager EXCEPT !.seen = manager.prompt]
                       ELSE manager
           IN  next \in Manager /\ next.conversation = Active /\ Tells(Active, disk[Active], next)
<1> DEFINE m == [manager EXCEPT !.seen = manager.prompt]
           next == IF manager.compacting THEN m ELSE manager
<1>1. manager \in Manager /\ Active = manager.conversation
  BY CoverParts DEF Active
<1>2. /\ m \in Manager /\ m.conversation = Active /\ m.seen = manager.prompt
      /\ m.prompt = manager.prompt /\ m.restored = manager.restored
      /\ m.compacting = manager.compacting
  BY <1>1 DEF Manager
<1>3. manager.compacting => manager.restored
  BY <1>1 DEF TitleInv, Attached
<1>4. WindowHolds => Owes(disk[Active], manager)
  BY <1>1 DEF CoverInv
<1> HIDE DEF m
<1>5. CASE manager.compacting
  <2>1. WindowHolds => Owes(disk[Active], m)
    BY <1>2, <1>3, <1>4 DEF Owes
  <2>2. Tells(Active, disk[Active], m)
    BY <1>2, <2>1 DEF Tells
  <2>3. next = m
    BY <1>5
  <2> HIDE DEF next
  <2>4. next \in Manager /\ next.conversation = Active /\ Tells(Active, disk[Active], next)
    BY <1>2, <2>2, <2>3
  <2> QED
    BY <2>4 DEF next, m
<1>6. CASE ~manager.compacting
  <2>1. Tells(Active, disk[Active], manager)
    BY <1>1, <1>4 DEF Tells
  <2>2. next = manager
    BY <1>6
  <2> HIDE DEF next
  <2>3. next \in Manager /\ next.conversation = Active /\ Tells(Active, disk[Active], next)
    BY <1>1, <2>1, <2>2
  <2> QED
    BY <2>3 DEF next, m
<1> QED
  BY <1>5, <1>6

(* A message is stored, and the summary refreshed.                         *)
LEMMA AppendHolds ==
    ASSUME TitleInv, CoverInv, AppendMessage
    PROVE  CoverInv'
<1>1. /\ Active \in Conversations /\ Active = manager.conversation
      /\ Len(disk[Active].messages) < MaxMessages /\ runs' = runs
  BY CoverParts DEF AppendMessage, TitleInv, Attached, Active
<1>2. PICK kind \in MessageKinds :
        LET next == IF manager.compacting THEN [manager EXCEPT !.seen = manager.prompt]
                    ELSE manager
            here == Directly(Active, next)
            s == Ensure(here)
            stored == IF "messages" \in s.dir.torn THEN <<>> ELSE StoreMessage(s, kind)
        IN  Perform(Active, <<here, s>> \o stored)
  BY DEF AppendMessage
<1> DEFINE next == IF manager.compacting THEN [manager EXCEPT !.seen = manager.prompt]
                   ELSE manager
           here == Directly(Active, next)
           s == Ensure(here)
           stored == IF "messages" \in s.dir.torn THEN <<>> ELSE StoreMessage(s, kind)
<1>3. Perform(Active, <<here, s>> \o stored)
  BY <1>2
<1>9. next \in Manager /\ next.conversation = Active /\ Tells(Active, disk[Active], next)
  BY <1>1, NextRequestTells
<1> HIDE DEF next
<1>4. /\ here \in GoodStages(Active, faults) /\ here.manager = next
      /\ here.dir = disk[Active]
  BY <1>1, <1>9, DirectlyGood
<1> HIDE DEF here
<1>5. /\ s \in GoodStages(Active, faults) /\ s.manager = next
      /\ s.dir.messages = disk[Active].messages
  BY <1>4, EnsureGood DEF SameReading
<1> HIDE DEF s
<1>6. AllGood(Active, <<here, s>>)
  BY <1>4, <1>5, TwoGood, CoverParts
<1>7. AllGood(Active, <<here, s>> \o stored)
  <2>1. CASE "messages" \in s.dir.torn
    <3>1. stored = <<>>
      BY <2>1
    <3>2. <<here, s>> \in Seq(GoodStages(Active, faults + 1))
      BY <1>6 DEF AllGood
    <3>3. <<here, s>> \o <<>> = <<here, s>>
      BY <3>2, NothingMore
    <3> HIDE DEF stored
    <3> QED
      BY <1>6, <3>1, <3>3
  <2>2. CASE "messages" \notin s.dir.torn
    <3>1. AllGood(Active, StoreMessage(s, kind))
      BY <1>1, <1>5, <1>9, <2>2, StoreGood, CoverParts
    <3>2. stored = StoreMessage(s, kind)
      BY <2>2
    <3> QED
      BY <1>6, <3>1, <3>2, ThenGood, CoverParts DEF AllGood
  <2> QED
    BY <2>1, <2>2
<1> QED
  BY <1>1, <1>3, <1>7, PerformHolds, CoverParts

(* A prompt for a compaction tells of all messages: the latest summary of  *)
(* those up to its end, and the window of the others.                      *)
LEMMA PromptTells ==
    ASSUME NEW d, NEW f \in 0..MaxFaults, GoodDir(d, f), PromptReadable(d)
    PROVE  /\ Prompt(d) \subseteq Numbers
           /\ WindowHolds => Told(d, Prompt(d))
<1>1. Numbered(d) /\ d \in Directory
  BY DEF GoodDir, Numbered
<1>2. Prompt(d) = LatestSummary(d).content \cup RecentMessages(d)
  BY DEF Prompt
<1>3. LatestSummary(d).content \subseteq Numbers /\ Edge(d) \in 0..Len(d.messages)
  BY <1>1, EdgeIs
<1>4. RecentMessages(d) \subseteq Numbers
  <2>1. PICK v : Reads(v, d)
    BY <1>1, ReadsExist
  <2>2. Recent(d) \in Nat
    BY <1>1, RecentNumber
  <2>3. v[Recent(d)] \in Picks
    BY <2>1, <2>2 DEF Reads
  <2> QED
    BY <2>1, <2>3 DEF Reads, Picks
<1>5. ASSUME WindowHolds PROVE Told(d, Prompt(d))
  <2> SUFFICES ASSUME NEW i \in DOMAIN d.messages, d.messages[i].prompt
               PROVE  i \in Prompt(d)
    BY DEF Told
  <2>1. PICK a : Leaves(d, a, f)
    BY <1>5 DEF GoodDir, Behind
  <2>2. i \in Nat
    BY <1>1, DirectoryParts
  <2>3. CASE i > Edge(d)
    <3>1. i \in RecentMessages(d)
      BY <1>1, <1>5, <2>1, <2>3, RecentShows
    <3> QED
      BY <1>2, <3>1
  <2>4. CASE i <= Edge(d)
    <3>1. Covers(d, LatestSummary(d))
      BY <1>1, <1>5, LatestIs DEF GoodDir
    <3>2. i \in LatestSummary(d).content
      BY <2>4, <3>1 DEF Covers, Edge
    <3> QED
      BY <1>2, <3>2
  <2> QED
    BY <1>3, <2>2, <2>3, <2>4
<1> QED
  BY <1>2, <1>3, <1>4, <1>5

(* Nothing changes but the manager, whose run has a request made anew.     *)
LEMMA PromptHolds ==
    ASSUME TitleInv, CoverInv, Active \in Conversations, NEW m \in Manager,
           m.conversation = Active, WindowHolds => Owes(disk[Active], m),
           manager' = m, disk' = disk, runs' = runs, faults' = faults
    PROVE  CoverInv'
<1>1. (\A c \in Conversations : GoodDir(disk[c], faults))'
  BY DEF CoverInv
<1>2. ContextTypeOK'
  BY DEF CoverInv, ContextTypeOK
<1>3. (WindowHolds =>
          \A c \in Conversations : manager.conversation = c => Owes(disk[c], manager))'
  OBVIOUS
<1> QED
  BY <1>1, <1>2, <1>3 DEF CoverInv

(* The messages of a run are built.                                        *)
LEMMA ContextHolds ==
    ASSUME TitleInv, CoverInv, RestoreContext
    PROVE  CoverInv'
<1>1. /\ manager.run # NoRun /\ manager.restored = FALSE /\ PromptReadable(disk[Active])
      /\ disk' = disk /\ runs' = runs /\ faults' = faults
  BY CoverParts DEF RestoreContext, Manager
<1>2. Active \in Conversations /\ Active = manager.conversation
  BY <1>1 DEF TitleInv, Attached, Active
<1> DEFINE told == Prompt(disk[Active])
           m == [manager EXCEPT !.restored = TRUE, !.prompt = told]
<1>3. manager' = m
  BY DEF RestoreContext
<1>4. faults \in 0..MaxFaults /\ GoodDir(disk[Active], faults)
  BY <1>2 DEF CoverInv, ContextTypeOK
<1>5. told \in SUBSET Numbers /\ (WindowHolds => Told(disk[Active], told))
  BY <1>1, <1>4, PromptTells
<1> HIDE DEF told
<1>6. /\ m \in Manager /\ m.conversation = Active /\ m.prompt = told
      /\ m.compacting = manager.compacting /\ m.seen = manager.seen
  BY <1>2, <1>5, CoverParts DEF Manager
<1> HIDE DEF m
<1>7. WindowHolds => Owes(disk[Active], m)
  BY <1>2, <1>5, <1>6 DEF CoverInv, Owes
<1> QED
  BY <1>1, <1>2, <1>3, <1>6, <1>7, PromptHolds

(* A compaction is requested.                                              *)
LEMMA RequestHolds ==
    ASSUME TitleInv, CoverInv, RequestCompaction
    PROVE  CoverInv'
<1>1. /\ manager.restored /\ PromptReadable(disk[Active])
      /\ disk' = disk /\ runs' = runs /\ faults' = faults
  BY DEF RequestCompaction
<1>2. Active \in Conversations /\ Active = manager.conversation
  BY <1>1 DEF TitleInv, Attached, Active
<1> DEFINE seen == Prompt(disk[Active])
           m == [manager EXCEPT !.compacting = TRUE, !.seen = seen]
<1>3. manager' = m
  BY DEF RequestCompaction
<1>4. faults \in 0..MaxFaults /\ GoodDir(disk[Active], faults)
  BY <1>2 DEF CoverInv, ContextTypeOK
<1>5. seen \in SUBSET Numbers /\ (WindowHolds => Told(disk[Active], seen))
  BY <1>1, <1>4, PromptTells
<1> HIDE DEF seen
<1>6. /\ m \in Manager /\ m.conversation = Active /\ m.seen = seen
      /\ m.restored = manager.restored /\ m.prompt = manager.prompt
  BY <1>2, <1>5, CoverParts DEF Manager
<1> HIDE DEF m
<1>7. WindowHolds => Owes(disk[Active], m)
  BY <1>2, <1>5, <1>6 DEF CoverInv, Owes
<1> QED
  BY <1>1, <1>2, <1>3, <1>6, <1>7, PromptHolds

(* After a compaction the run's messages are built anew.                   *)
LEMMA RebuildGood ==
    ASSUME faults \in 0..MaxFaults, NEW c, NEW s \in GoodStages(c, faults), PromptReadable(s.dir),
           s.manager.conversation = c, s.manager.compacting = FALSE
    PROVE  AllGood(c, <<Rebuild(s)>>)
<1> DEFINE told == Prompt(s.dir)
           m == [s.manager EXCEPT !.prompt = told]
           t == Rebuild(s)
<1>1. /\ s.manager \in Manager /\ GoodDir(s.dir, faults) /\ faults \in Nat
      /\ NoJournal \in Journals
  BY ContextAssumption, PartsOfGood DEF Journals
<1>2. told \in SUBSET Numbers /\ (WindowHolds => Told(s.dir, told))
  BY <1>1, PromptTells
<1>3. t = Stage(s.dir, m, NoJournal)
  BY DEF Rebuild
<1> HIDE DEF told, t
<1>4. m \in Manager /\ m.conversation = c /\ m.prompt = told /\ m.compacting = FALSE
  BY <1>1, <1>2 DEF Manager
<1> HIDE DEF m
<1>5. Tells(c, s.dir, m)
  BY <1>2, <1>4 DEF Tells, Owes
<1>6. t \in GoodStages(c, faults)
  BY <1>1, <1>3, <1>4, <1>5, GoodParts
<1>7. t \in GoodStages(c, faults + 1)
  BY <1>1, <1>6, GoodLater
<1>8. <<t>> \in Seq(GoodStages(c, faults + 1)) /\ <<t>> # <<>> /\ Last(<<t>>) = t
  BY <1>7 DEF Last
<1> QED
  BY <1>6, <1>8 DEF AllGood, t

(* What add_summary wrote can be read, if it could before.                 *)
LEMMA AddedReads ==
    ASSUME NEW s, NEW summary, PromptReadable(s.dir), s.dir \in Directory, s.manager \in Manager,
           summary.version # 0, summary \in Summary
    PROVE  LET t == Last(AddSummary(s, summary))
           IN  PromptReadable(t.dir) /\ t.manager = s.manager
<1> DEFINE longer == Append(s.dir.summaries, summary)
           first == Stage([s.dir EXCEPT !.summaries = longer], s.manager, "summaries")
           d == [s.dir EXCEPT !.summaries = longer, !.latest = summary]
           second == Stage(d, s.manager, NoJournal)
<1>1. AddSummary(s, summary) = <<first, second>>
  BY DEF AddSummary
<1>2. second.dir = d /\ second.manager = s.manager
  BY StageParts
<1> HIDE DEF longer
<1>3. d.torn = s.dir.torn /\ d.latest = summary
  BY DEF Directory
<1>4. summary # NoSummary
  BY DEF NoSummary
<1> HIDE DEF d
<1>5. PromptReadable(d)
  BY <1>3, <1>4 DEF PromptReadable, SummaryReadable
<1> HIDE DEF first, second
<1>6. Last(<<first, second>>) = second
  BY DEF Last
<1> QED
  BY <1>1, <1>2, <1>5, <1>6

(* Its reply is stored.                                                    *)
LEMMA CompactionHolds ==
    ASSUME TitleInv, CoverInv, AppendCompactionSummary
    PROVE  CoverInv'
<1>1. Active \in Conversations /\ Active = manager.conversation /\ runs' = runs
  BY DEF AppendCompactionSummary, TitleInv, Attached, Active
<1> DEFINE m == [manager EXCEPT !.compacting = FALSE, !.seen = {}]
           here == Directly(Active, m)
           ensured == Ensure(here)
           d == disk[Active]
           summary == CompactionSummary(d, manager.seen)
           written == AddSummary(ensured, summary)
           added == IF PromptReadable(d) THEN written \o <<Rebuild(Last(written))>> ELSE <<>>
<1>2. Perform(Active, <<here, ensured>> \o added) /\ manager.compacting
  BY DEF AppendCompactionSummary
<1>3. /\ m \in Manager /\ m.compacting = FALSE /\ m.conversation = Active
      /\ m.restored = manager.restored /\ m.prompt = manager.prompt
  BY <1>1, CoverParts DEF Manager
<1> HIDE DEF m
<1>11. Tells(Active, d, m)
  <2>1. WindowHolds => Owes(d, manager)
    BY <1>1 DEF CoverInv
  <2> HIDE DEF d
  <2> QED
    BY <1>3, <2>1 DEF Tells, Owes
<1>4. /\ here \in GoodStages(Active, faults) /\ here.manager = m /\ here.dir = d
  BY <1>1, <1>3, <1>11, DirectlyGood
<1> HIDE DEF here
<1>5. /\ ensured \in GoodStages(Active, faults) /\ ensured.manager = m
      /\ SameReading(d, ensured.dir) /\ ensured.dir.torn = d.torn
  BY <1>4, EnsureGood
<1> HIDE DEF ensured, d
<1>6. GoodDir(d, faults) /\ faults \in Nat /\ faults \in 0..MaxFaults
  BY <1>1, CoverParts DEF CoverInv, ContextTypeOK, d
<1>7. manager.seen \in SUBSET Numbers /\ (WindowHolds => Told(d, manager.seen))
  <2>1. manager.seen \in SUBSET Numbers
    BY CoverParts DEF Manager
  <2>2. WindowHolds => Told(d, manager.seen)
    BY <1>1, <1>2 DEF CoverInv, Owes, d
  <2> QED
    BY <2>1, <2>2
<1>8. Follows(d, summary, faults)
  BY <1>6, <1>7, CompactionFollows DEF GoodDir
<1>12. summary \in Summary /\ summary.version # 0
  <2>1. LatestSummary(d) \in Summary
    BY <1>6, LatestIs DEF GoodDir
  <2>2. LatestSummary(d).version \in Nat
    BY <2>1 DEF Summary
  <2>3. summary.version = LatestSummary(d).version + 1
    BY DEF CompactionSummary
  <2>4. summary \in Summary
    BY <1>8 DEF Follows
  <2> HIDE DEF summary
  <2> QED
    BY <2>2, <2>3, <2>4
<1> HIDE DEF summary
<1>9. AllGood(Active, <<here, ensured>>)
  BY <1>4, <1>5, <1>6, TwoGood
<1>10. AllGood(Active, <<here, ensured>> \o added)
  <2>1. CASE ~PromptReadable(d)
    <3>1. <<here, ensured>> \in Seq(GoodStages(Active, faults + 1))
      BY <1>9 DEF AllGood
    <3>2. <<here, ensured>> \o <<>> = <<here, ensured>>
      BY <3>1, NothingMore
    <3>3. added = <<>>
      BY <2>1
    <3> HIDE DEF added
    <3> QED
      BY <1>9, <3>2, <3>3
  <2>2. CASE PromptReadable(d)
    <3>1. ensured \in GoodStages(Active, faults + 1)
      BY <1>5, <1>6, GoodLater
    <3>2. AllGood(Active, written)
      BY <1>3, <1>5, <1>6, <1>8, <3>1, FollowsSame, AddGood
    <3>3. PromptReadable(ensured.dir)
      BY <1>5, <2>2 DEF PromptReadable, SummaryReadable, SameReading
    <3>4. ensured.dir \in Directory /\ ensured.manager \in Manager
      BY <1>5, PartsOfGood
    <3> DEFINE t == Last(written)
    <3>5. PromptReadable(t.dir) /\ t.manager = m
      BY <1>5, <1>12, <3>3, <3>4, AddedReads
    <3> HIDE DEF written
    <3>6. t \in GoodStages(Active, faults)
      BY <3>2 DEF AllGood
    <3>7. AllGood(Active, <<Rebuild(t)>>)
      BY <1>3, <1>6, <3>5, <3>6, RebuildGood
    <3>8. added = written \o <<Rebuild(t)>>
      BY <2>2
    <3> HIDE DEF t, added
    <3>9. AllGood(Active, written \o <<Rebuild(t)>>)
      BY <1>6, <3>2, <3>7, ThenGood DEF AllGood
    <3> QED
      BY <1>6, <1>9, <3>8, <3>9, ThenGood DEF AllGood
  <2> QED
    BY <2>1, <2>2
<1> QED
  BY <1>1, <1>2, <1>10, PerformHolds, CoverParts

(* A run ends, or is dropped.                                              *)
LEMMA FinishHolds ==
    ASSUME TitleInv, CoverInv, FinishRun
    PROVE  CoverInv'
<1> DEFINE left == manager.activeRuns \ {manager.run}
           over == [manager EXCEPT !.run = NoRun, !.restored = FALSE, !.prompt = {},
                                   !.compacting = FALSE, !.seen = {}]
           dropped == [over EXCEPT !.activeRuns = left]
           file == [status |-> "finished",
                    conversation |-> IF manager.run \in manager.activeRuns THEN Active
                                     ELSE NoConversation]
           written == [runs EXCEPT ![manager.run] = file]
<1>1. /\ manager' \in {over, dropped} /\ disk' = disk
      /\ \/ faults' = faults /\ runs' = written
         \/ faults < MaxFaults /\ faults' = faults + 1 /\ runs' = runs
  BY DEF FinishRun
<1>2. left \in SUBSET Runs
  BY CoverParts DEF Manager
<1> HIDE DEF left
<1>3. over \in Manager /\ Quiet(over)
  BY CoverParts DEF Manager, Quiet
<1> HIDE DEF over
<1>4. dropped \in Manager /\ Quiet(dropped)
  BY <1>2, <1>3 DEF Manager, Quiet
<1> HIDE DEF dropped
<1>5. file \in RunFile
  <2>1. Active \in Conversations \cup {NoConversation}
    BY CoverParts DEF Active, Manager
  <2> QED
    BY <2>1 DEF RunFile
<1> HIDE DEF file
<1>6. written \in [Runs -> RunFile]
  BY <1>5, CoverParts
<1> HIDE DEF written
<1>7. runs' \in [Runs -> RunFile]
  BY <1>1, <1>6, CoverParts
<1> DEFINE m == manager'
<1>8. m \in Manager /\ Quiet(m)
  BY <1>1, <1>3, <1>4
<1> HIDE DEF m
<1>9. faults' \in {faults, faults + 1} /\ faults' \in 0..MaxFaults
  <2>1. faults \in 0..MaxFaults /\ MaxFaults \in Nat
    BY ContextAssumption DEF CoverInv, ContextTypeOK
  <2> QED
    BY <1>1, <2>1
<1> QED
  BY <1>1, <1>7, <1>8, <1>9, ManagerHolds DEF m

(* The program ends.                                                       *)
LEMMA QuitHolds ==
    ASSUME TitleInv, CoverInv, Quit
    PROVE  CoverInv'
<1>1. manager' = AtRest /\ disk' = disk /\ runs' = runs /\ faults' = faults
  BY DEF Quit
<1>2. AtRest \in Manager /\ Quiet(AtRest)
  BY DEF AtRest, Manager, Titles, Quiet
<1> QED
  BY <1>1, <1>2, ManagerHolds, CoverParts DEF CoverInv, ContextTypeOK

(* Every step keeps it.                                                    *)
LEMMA NextHolds ==
    ASSUME TitleInv, CoverInv, [ContextNext]_contextVars
    PROVE  CoverInv'
<1>1. CASE UNCHANGED contextVars
  <2>1. disk' = disk /\ runs' = runs /\ manager' = manager /\ faults' = faults
    BY <1>1 DEF contextVars
  <2>2. (\A c \in Conversations : GoodDir(disk[c], faults))'
    BY <2>1 DEF CoverInv
  <2>3. (WindowHolds =>
          \A c \in Conversations : manager.conversation = c => Owes(disk[c], manager))'
    BY <2>1 DEF CoverInv, Owes
  <2>4. ContextTypeOK'
    BY <2>1 DEF CoverInv, ContextTypeOK
  <2> QED
    BY <2>2, <2>3, <2>4 DEF CoverInv
<1>2. CASE ContextNext
  BY <1>2, StartHolds, RestoreHolds, RenameHolds, DeleteHolds, BeginHolds, ContextHolds,
     AppendHolds, RequestHolds, CompactionHolds, FinishHolds, QuitHolds
  DEF ContextNext
<1> QED
  BY <1>1, <1>2

(* At first there is nothing to cover.                                     *)
LEMMA InitHolds ==
    ASSUME ContextInit
    PROVE  CoverInv
<1>1. /\ disk = [c \in Conversations |-> EmptyDirectory]
      /\ runs = [r \in Runs |-> NoRunFile] /\ manager = AtRest /\ faults = 0
  BY DEF ContextInit
<1>2. GoodDir(EmptyDirectory, 0) /\ EmptyDirectory \in Directory
  BY EmptyGood DEF GoodDir, Numbered
<1>3. AtRest \in Manager /\ Quiet(AtRest)
  BY DEF AtRest, Manager, Titles, Quiet
<1>4. NoRunFile \in RunFile /\ 0 \in 0..MaxFaults
  BY ContextAssumption DEF NoRunFile, RunFile
<1>5. ContextTypeOK
  BY <1>1, <1>2, <1>3, <1>4 DEF ContextTypeOK
<1> QED
  BY <1>1, <1>2, <1>3, <1>5, QuietOwes DEF CoverInv

-----------------------------------------------------------------------------
(* Theorems.                                                               *)

(* Every step keeps the titles.                                            *)
LEMMA NextTitles ==
    ASSUME TitleInv, [ContextNext]_contextVars
    PROVE  TitleInv'
<1>1. CASE UNCHANGED contextVars
  <2>1. disk' = disk /\ manager' = manager
    BY <1>1 DEF contextVars
  <2>2. Attached(manager)
    BY DEF TitleInv
  <2> QED
    BY <2>1, <2>2, ManagerKeeps
<1>2. CASE ContextNext
  BY <1>2, StartNewConversationKeeps, RestoreChatKeeps, RenameConversationKeeps,
     DeleteConversationKeeps, BeginRunKeeps, RestoreContextKeeps, AppendMessageKeeps,
     RequestCompactionKeeps,
     AppendCompactionSummaryKeeps, FinishRunKeeps, QuitKeeps
  DEF ContextNext
<1> QED
  BY <1>1, <1>2

(* Both invariants hold of every behaviour.                                *)
LEMMA Inductive == ContextSpec => [](TitleInv /\ CoverInv)
<1>1. ContextInit => TitleInv /\ CoverInv
  BY InitTitles, InitHolds
<1>2. TitleInv /\ CoverInv /\ [ContextNext]_contextVars => TitleInv' /\ CoverInv'
  BY NextTitles, NextHolds
<1> QED
  BY <1>1, <1>2, PTL DEF ContextSpec

(* Whatever write fails or is cut off, what is stored stays well formed:   *)
(* messages and what summaries tell of are numbers within their range, a   *)
(* summary's end among them, and the manager's fields hold what they are   *)
(* declared to.                                                            *)
THEOREM ContextTypes == ContextSpec => []ContextTypeOK
<1>1. CoverInv => ContextTypeOK
  BY DEF CoverInv
<1> QED
  BY <1>1, Inductive, PTL

(* Every summary, and the latest one that replaces messages in the prompt, *)
(* speaks for all messages up to its end, if the window takes what a       *)
(* refresh leaves and a message for each write that failed.  Without that  *)
(* a compaction is made from less than the messages it replaces.           *)
THEOREM SummariesCover ==
    ASSUME WindowHolds
    PROVE  ContextSpec => []SummaryCoversItsMessages
<1>1. WindowHolds
  OBVIOUS
<1>2. CoverInv => SummaryCoversItsMessages
  <2> SUFFICES ASSUME CoverInv, NEW c \in Conversations, NEW s \in Summaries(disk[c]),
                      NEW i \in DOMAIN disk[c].messages,
                      disk[c].messages[i].prompt, disk[c].messages[i].sequence <= s.end
               PROVE  disk[c].messages[i].sequence \in s.content
    BY DEF SummaryCoversItsMessages
  <2> DEFINE d == disk[c]
  <2>1. GoodDir(d, faults)
    BY DEF CoverInv
  <2> HIDE DEF d
  <2>2. Numbered(d) /\ \A t \in Stored(d) : Covers(d, t)
    BY <1>1, <2>1 DEF GoodDir
  <2>3. s \in Stored(d)
    <3>1. LatestSummary(d) \in Stored(d)
      BY <2>2, LatestIs
    <3> QED
      BY <3>1 DEF Summaries, Stored, ToSet, d
  <2>4. d.messages[i].sequence = i
    BY <2>2 DEF Numbered, d
  <2>5. Covers(d, s)
    BY <2>2, <2>3
  <2> QED
    BY <2>4, <2>5 DEF Covers, d
<1> QED
  BY <1>1, <1>2, Inductive, PTL

(* A title the user gave stands until the user changes it: no append,      *)
(* summary, reload or compaction overwrites it, interrupted at whatever    *)
(* write, because the cached record is renamed together with the file.     *)
THEOREM RenamesAreKept == ContextSpec => []RenameIsKept
<1>1. TitleInv => RenameIsKept
  BY DEF TitleInv, Titled, RenameIsKept
<1> QED
  BY <1>1, Inductive, PTL
=============================================================================
