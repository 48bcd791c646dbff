----------------------- MODULE ChatContextProperties ------------------------
(***************************************************************************)
(* What the stored chat context is expected to keep, through failed        *)
(* writes, crashes and half-written journals.                              *)
(***************************************************************************)
EXTENDS ChatContext

Summaries(d) == ToSet(d.summaries) \cup {LatestSummary(d)}

(* A summary speaks for every message it replaces.  Messages up to its end *)
(* are never shown to the model again, so its text must be made from all   *)
(* of them: the refresh carries the previous summary and takes the next    *)
(* messages without a gap, and what the model compacts is all it was shown *)
(* (the summary and a window of recent messages of limited size).          *)
SummaryCoversItsMessages ==
    \A c \in Conversations : \A s \in Summaries(disk[c]) : \A i \in DOMAIN disk[c].messages :
        LET m == disk[c].messages[i]
        IN  m.prompt /\ m.sequence <= s.end => m.sequence \in s.content

(* The title a user gave stands until the user changes it, although every  *)
(* append writes the cached record over the stored one.                    *)
RenameIsKept == \A c \in Conversations : disk[c].renamed => disk[c].title = "by user"
=============================================================================
