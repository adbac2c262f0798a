---------------------------- MODULE ChildOutput ----------------------------
(***************************************************************************)
(* What the Agent keeps of the output of a process it starts               *)
(* (yourhand-agent.mjs): execLocal, which answers when it is over, and the *)
(* process sessions of procCall, which are read piece by piece.            *)
(*                                                                         *)
(* The process writes characters of one to four bytes; a data event brings *)
(* any number of bytes and is decoded by itself (buf.toString('utf8')), so *)
(* that a character shared by two events comes out as U+FFFD.  Sessions    *)
(* count the units of JavaScript strings.  One of the two output streams   *)
(* is modelled.                                                            *)
(*                                                                         *)
(* The process may leave a descendant behind that holds its pipes; data    *)
(* still in a pipe arrives after the exit event, and the close event is    *)
(* the last.                                                               *)
(***************************************************************************)
EXTENDS Naturals, FiniteSets, Sequences, Functions

CONSTANTS
    MaxOutput,   \* bound of the bytes the process writes
    Capacity,    \* PROC_MAX_BUFFER, in units
    Limit        \* maxBytes of a command

ASSUME BoundsType == MaxOutput \in Nat \ {0} /\ Capacity \in Nat /\ Limit \in Nat

VARIABLES
    use,        \* what the process was started for
    holders,    \* who has the pipes: the process, a descendant
    written,    \* bytes written
    chars,      \* the characters they are, each with its first and last byte
    arrived,    \* bytes that came in data events
    text,       \* history: the units these were decoded to, in order
    split,      \* history: the characters inside which a data event ended
    exited,     \* the exit event has been handled
    session,    \* buffer and baseOffset; a unit in the buffer is its place in text
    listed,     \* the session is in procSessions
    reader,     \* a client of the session: its next offset, what it got, the gaps it was told
    command,    \* execLocal: what it keeps, its timer, its answer
    killed      \* a kill was sent

outVars == <<written, chars, arrived, text, split>>
childVars == <<use, holders, outVars, exited, session, listed, reader, command, killed>>

Bytes == 1..MaxOutput
Characters == [first : Bytes, last : Bytes]

(* A unit of decoded text: the byte it stands at, its length when encoded
   again, and whether it is of the output or U+FFFD. *)
Units == [at : Bytes, size : 0..4, whole : BOOLEAN]
Whole(b, n) == [at |-> b, size |-> n, whole |-> TRUE]
Damaged(b)  == [at |-> b, size |-> 3, whole |-> FALSE]

ChildTypeOK ==
    /\ use \in {"none", "session", "command", "unstartable"}
    /\ holders \in SUBSET {"process", "descendant"}
    /\ written \in 0..MaxOutput /\ arrived \in 0..written
    /\ chars \in SUBSET Characters /\ split \in SUBSET chars
    /\ text \in Seq(Units)
    /\ exited \in BOOLEAN /\ listed \in BOOLEAN /\ killed \in BOOLEAN
    /\ session \in [base : Nat, buffer : Seq(Nat)]
    /\ Len(session.buffer) <= Capacity
    /\ reader \in [next : Nat, got : Seq(Nat), gaps : SUBSET Nat]
    /\ command \in [kept : Nat, bytes : 0..Limit, torn : BOOLEAN, timedOut : BOOLEAN,
                    answer : {"none", "whole", "truncated", "error"}]

ChildInit ==
    /\ use = "none" /\ holders = {} /\ written = 0 /\ arrived = 0
    /\ chars = {} /\ text = <<>> /\ split = {}
    /\ exited = FALSE /\ listed = FALSE /\ killed = FALSE
    /\ session = [base |-> 0, buffer |-> <<>>]
    /\ reader = [next |-> 0, got |-> <<>>, gaps |-> {}]
    /\ command = [kept |-> 0, bytes |-> 0, torn |-> FALSE, timedOut |-> FALSE, answer |-> "none"]

-----------------------------------------------------------------------------
(* The process and its descendant.                                         *)

WriteOutput(n) ==
    /\ holders # {} /\ written + n <= MaxOutput /\ written' = written + n
    /\ chars' = chars \cup {[first |-> written + 1, last |-> written + n]}
    /\ UNCHANGED <<use, holders, arrived, text, split, exited, session, listed, reader, command, killed>>
Fork ==
    /\ holders = {"process"} /\ holders' = {"process", "descendant"}
    /\ UNCHANGED <<use, outVars, exited, session, listed, reader, command, killed>>
ProcessEnds(p) ==
    /\ p \in holders /\ holders' = holders \ {p}
    /\ UNCHANGED <<use, outVars, exited, session, listed, reader, command, killed>>

-----------------------------------------------------------------------------
(* buf.toString('utf8') of the bytes after lo up to hi.                    *)

(* A character of four bytes is a pair of units; encoded alone, the first
   stands for the pair. *)
UnitsOf(c) ==
    IF c.last = c.first + 3 THEN {Whole(c.last - 1, 4), Whole(c.last, 0)}
    ELSE {Whole(c.last, c.last - c.first + 1)}

(* The beginning of a character is one U+FFFD, each byte that continues one
   begun before is another. *)
Decoded(lo, hi) ==
    LET Cut == {c \in chars : lo < c.first /\ c.first <= hi /\ hi < c.last}
        Rest == {b \in (lo + 1)..hi : \E c \in chars : c.first <= lo /\ b <= c.last}
    IN  (UNION {UnitsOf(c) : c \in {d \in chars : lo < d.first /\ d.last <= hi}})
        \cup {Damaged(hi) : c \in Cut} \cup {Damaged(b) : b \in Rest}

(* The same in order; there is one such sequence. *)
ToString(lo, hi) ==
    {t \in Bijection(1..Cardinality(Decoded(lo, hi)), Decoded(lo, hi)) :
        \A i, j \in DOMAIN t : i < j => t[i].at < t[j].at}

(* Buffer.from(text), its length. *)
ByteLength(t) == Cardinality({x \in (DOMAIN t) \X (1..4) : x[2] <= t[x[1]].size})

-----------------------------------------------------------------------------
(* procStart, procCall.                                                    *)

Numbers(a, b) == [i \in 1..(b - a) |-> a + i]

KeepBase(s, cut) == [s EXCEPT !.buffer = SubSeq(@, cut + 1, Len(@))]  \* mutant: base kept
KeepHead(s, cut) == [s EXCEPT !.base = @ + cut]   \* mutant: the head not dropped
DropHead(s, cut) == [base |-> s.base + cut, buffer |-> SubSeq(s.buffer, cut + 1, Len(s.buffer))]

(* procAppend. *)
ProcAppend(s, more) ==
    LET longer == [s EXCEPT !.buffer = @ \o more] IN
    IF Len(longer.buffer) > Capacity THEN DropHead(longer, Len(longer.buffer) - Capacity)
    ELSE longer

StartSession ==
    /\ use = "none" /\ use' = "session" /\ holders' = {"process"} /\ listed' = TRUE
    /\ UNCHANGED <<outVars, exited, session, reader, command, killed>>

(* A program that cannot be started has an error event, whose text goes to
   the buffer, and no exit event; its session stays. *)
StartFails ==
    /\ use = "none" /\ use' = "unstartable" /\ listed' = TRUE
    /\ written' = 1 /\ arrived' = 1 /\ chars' = {[first |-> 1, last |-> 1]}
    /\ text' = <<Whole(1, 1)>> /\ session' = ProcAppend(session, Numbers(0, 1))
    /\ UNCHANGED <<holders, split, exited, reader, command, killed>>

(* read: from the offset asked for, or from the first unit kept. *)
Read ==
    /\ listed
    /\ LET start == IF reader.next > session.base THEN reader.next ELSE session.base
           rest  == SubSeq(session.buffer, start - session.base + 1, Len(session.buffer))
       IN  reader' = [next |-> session.base + Len(session.buffer),
                      got  |-> reader.got \o rest,
                      gaps |-> IF reader.next < session.base
                               THEN reader.gaps \cup (reader.next + 1)..start ELSE reader.gaps]
    /\ UNCHANGED <<use, holders, outVars, exited, session, listed, command, killed>>

Kill ==
    /\ listed /\ ~exited /\ killed' = TRUE
    /\ UNCHANGED <<use, holders, outVars, exited, session, listed, reader, command>>

(* forget, with or without force. *)
Forget(force) ==
    /\ listed /\ (exited \/ force) /\ listed' = FALSE
    /\ killed' = (killed \/ ~exited)
    /\ UNCHANGED <<use, holders, outVars, exited, session, reader, command>>

-----------------------------------------------------------------------------
(* execLocal.                                                              *)

Run ==
    /\ use = "none" /\ use' = "command" /\ holders' = {"process"}
    /\ UNCHANGED <<outVars, exited, session, listed, reader, command, killed>>
RunFails ==
    /\ use = "none" /\ use' = "unstartable"
    /\ command' = [command EXCEPT !.answer = "error"]
    /\ UNCHANGED <<holders, outVars, exited, session, listed, reader, killed>>

(* add: nothing once the limit is reached, all of the text if it fits, or
   what fits of it, of which a character that is cut comes out as U+FFFD.
   outBytes beyond the limit is not told apart from the limit. *)
CutAfter(t, n, room) ==
    ByteLength(SubSeq(t, 1, n)) <= room /\ room < ByteLength(SubSeq(t, 1, n + 1))
Add(t) ==
    LET room == Limit - command.bytes IN
    \/ room = 0 /\ UNCHANGED command
    \/ /\ 0 < room /\ ByteLength(t) <= room
       /\ command' = [command EXCEPT !.kept = @ + Len(t), !.bytes = @ + ByteLength(t)]
    \/ /\ 0 < room /\ room < ByteLength(t)
       /\ \E n \in 0..(Len(t) - 1) :
            /\ CutAfter(t, n, room)
            /\ LET torn == ByteLength(SubSeq(t, 1, n)) < room IN
               command' = [command EXCEPT !.kept = @ + (IF torn THEN n + 1 ELSE n),
                                          !.bytes = Limit, !.torn = torn]

FlagOnly == killed' = killed                      \* mutant: the timer kills nothing
KillShell == killed' = TRUE

RunTimeout ==
    /\ use = "command" /\ command.answer = "none" /\ ~command.timedOut
    /\ command' = [command EXCEPT !.timedOut = TRUE] /\ KillShell
    /\ UNCHANGED <<use, holders, outVars, exited, session, listed, reader>>

-----------------------------------------------------------------------------
(* The events of the child.                                                *)

Data(n) ==
    /\ arrived + n <= written /\ arrived' = arrived + n
    /\ split' = split \cup {c \in chars : c.first <= arrived' /\ arrived' < c.last}
    /\ \E t \in ToString(arrived, arrived') :
        /\ text' = text \o t
        /\ \/ /\ use = "session" /\ UNCHANGED command
              /\ session' = ProcAppend(session, Numbers(Len(text), Len(text')))
           \/ use = "command" /\ Add(t) /\ UNCHANGED session
    /\ UNCHANGED <<use, holders, written, chars, exited, listed, reader, killed>>

ProcessExit ==
    /\ use \in {"session", "command"} /\ "process" \notin holders /\ ~exited
    /\ exited' = TRUE
    /\ UNCHANGED <<use, holders, outVars, session, listed, reader, command, killed>>

OnClose == exited /\ holders = {} /\ arrived = written

Answer ==
    /\ use = "command" /\ command.answer = "none" /\ OnClose
    /\ command' = [command EXCEPT !.answer = IF command.bytes >= Limit THEN "truncated" ELSE "whole"]
    /\ UNCHANGED <<use, holders, outVars, exited, session, listed, reader, killed>>

ChildNext ==
    \/ \E n \in 1..4 : WriteOutput(n) \/ Fork \/ \E p \in holders : ProcessEnds(p)
    \/ StartSession \/ StartFails \/ Read \/ Kill \/ \E force \in BOOLEAN : Forget(force)
    \/ Run \/ RunFails \/ RunTimeout \/ \E n \in 1..MaxOutput : Data(n)
    \/ ProcessExit \/ Answer

(* A timer fires, events that are due are handled, and a process that was
   killed ends; nothing is assumed of its descendant. *)
Killed == killed /\ ProcessEnds("process")
ChildFairness ==
    /\ WF_childVars(RunTimeout) /\ WF_childVars(Killed) /\ WF_childVars(ProcessExit) /\ WF_childVars(Answer)
    /\ WF_childVars(\E n \in 1..MaxOutput : Data(n))

ChildSpec == ChildInit /\ [][ChildNext]_childVars /\ ChildFairness

-----------------------------------------------------------------------------
(* Properties.                                                             *)

(* The decoded text has every character that came in one data event, once and
   in order; U+FFFD stands in it only for a character that two events shared
   (yourhand-agent.mjs:316, 394). *)
TextExact ==
    /\ \A i, j \in DOMAIN text : i < j => text[i].at < text[j].at
    /\ \A c \in chars \ split : c.last <= arrived => UnitsOf(c) \subseteq Range(text)
    /\ \A u \in Range(text) :
        \/ \E c \in chars : u \in UnitsOf(c)
        \/ ~u.whole /\ \E c \in split : c.first <= u.at /\ u.at <= c.last

(* A client that reads on from nextOffset gets every unit of that text once
   and in order, or is told (truncated, actualOffset) that exactly that one is
   gone, however output, readings and the dropping of the buffer's head
   alternate (yourhand-agent.mjs:393-398, 420). *)
ReaderExact ==
    /\ \A i \in 1..(Len(reader.got) - 1) : reader.got[i] < reader.got[i + 1]
    /\ Range(reader.got) \cup reader.gaps = 1..reader.next
    /\ Range(reader.got) \cap reader.gaps = {}

(* A command whose answer is not marked as truncated is told the text of all
   it wrote, uncut, and of what its descendants wrote, though it may be killed
   or end with output still in its pipes (yourhand-agent.mjs:317, 324). *)
WholeIsWhole ==
    command.answer = "whole" => command.kept = Len(text) /\ ~command.torn /\ arrived = written

(* What readers of a session and callers of a command get is exactly the
   output, in order, but for what they are told is missing and for characters
   that two data events shared. *)
OutputExact == TextExact /\ ReaderExact /\ WholeIsWhole

(* A command is answered in the end, at the latest through its timer, unless
   a descendant holds on to its pipes. *)
CommandSettles ==
    (use = "command") ~> (command.answer # "none" \/ "descendant" \in holders)

-----------------------------------------------------------------------------
(* What the proofs add.  A data event that ended inside a character is known;
   the text is of bytes that arrived.  The buffer holds the places after its
   base up to the last; the client is at one of them and has, or was told of,
   what comes before; a command keeps all that arrived until its limit. *)
Written ==
    /\ \A c \in chars : c.first <= c.last /\ c.last <= c.first + 3 /\ c.last <= written
    /\ \A c \in chars : c.first <= arrived /\ arrived < c.last => c \in split
    /\ \A i \in DOMAIN text : text[i].at <= arrived
Idle ==
    /\ use \in {"none", "unstartable"} => holders = {} /\ arrived = written
    /\ use = "none" => arrived = 0 /\ chars = {} /\ text = <<>>
                       /\ command.kept = 0 /\ ~command.torn
    /\ listed => use \in {"session", "unstartable"}
Buffered == IF use = "command" THEN 0 ELSE Len(text)
Stream == session.base <= Buffered /\ session.buffer = Numbers(session.base, Buffered)
Follows == reader.next <= Buffered
KeepsAll ==
    /\ use = "command" /\ command.bytes < Limit => command.kept = Len(text) /\ ~command.torn
    /\ command.answer = "whole" => use = "command" /\ holders = {} /\ arrived = written

ChildInv ==
    /\ ChildTypeOK /\ Idle /\ Written /\ TextExact
    /\ Stream /\ Follows /\ ReaderExact /\ KeepsAll /\ WholeIsWhole
=============================================================================
