--------------------------- MODULE AgentRegistry ---------------------------
(***************************************************************************)
(* mission0: a list of agents in memory and a dump of it in a file         *)
(* (main.c, util.c).                                                       *)
(*                                                                         *)
(* The list is a chain of structs in which nobody sets the next field of   *)
(* the last one: it holds what the memory held.  Fresh memory is zero; but *)
(* fclose gives the buffer of the dump file back to the heap, and an agent *)
(* allocated there finds text in its next field.  "end" says what the last *)
(* next field holds; a walk over the end of a "wild" list kills the        *)
(* process.                                                                *)
(*                                                                         *)
(* A line of the file is the length of a text from some place on; the      *)
(* letters, and crypt, which shifts each of them, are left out.  Lengths   *)
(* count, because a line that does not fit the buffer it is read into      *)
(* leaves its rest for the next read.                                      *)
(***************************************************************************)
EXTENDS Integers, Sequences, SequencesExt

CONSTANTS
    People,     \* the names, last names, ages, genders and missions typed in:
                \* five lines for an agent
    AssetIds,   \* the ids of assets typed in
    MaxAgents,  \* agents in the list
    MaxAssets   \* assets of one agent

Line(text, len) == [of |-> text, from |-> 0, len |-> len]
AgentEnd == Line("AgentEnd", 8)
FileEnd == Line("FileEnd", 7)
NoFile == <<Line("no file", 0)>>

Texts == {p[i].of : p \in People, i \in 1 .. 5} \cup {id.of : id \in AssetIds}
         \cup {"AgentEnd", "FileEnd", "no file", "0"}
Lines == [of : Texts, from : Nat, len : Nat]

ASSUME BoundsAssumption == MaxAgents \in Nat /\ MaxAssets \in Nat

\* readGender takes one letter, readAsset four letters and nine digits.
ASSUME TypedAssumption ==
    /\ People \subseteq [1 .. 5 -> Lines] /\ \A p \in People : p[4].len = 1
    /\ AssetIds \subseteq Lines /\ \A id \in AssetIds : id.len = 13

VARIABLES
    pc,      \* "menu", "dump", "load", "endless" or "dead"
    list,    \* the agents in the chain from head
    end,     \* next of the last agent: "null" or "wild"
    dirty,   \* memory that was the buffer of a file may be allocated again
    file,    \* the lines of EncryptedData.txt, or NoFile
    agentPosition,  \* the agents dumpEncryptedFile has written before this one
    input,   \* the lines loadEncryptedFile has still to read
    agent,   \* the agent it is reading
    got,     \* the agents it has read
    dumped   \* history: the agents of the dump the file holds, <<>> if it holds none

vars == <<pc, list, end, dirty, file, agentPosition, input, agent, got, dumped>>

-----------------------------------------------------------------------------
(* Buffers.                                                                *)

\* The buffers of loadEncryptedFile: MaxBuffSize twice, AgeBuffSize, GenderBuffSize
\* and MissionBuffSize; and AssetBuffSize.
FieldBuff == <<64, 64, 10, 3, 14>>
AssetBuff == 15

\* fgets takes the line with its end, or size - 1 characters of it.
Taken(line, size) == IF line.len + 1 < size THEN line ELSE [line EXCEPT !.len = size - 1]
Left(line, size) ==
    IF line.len + 1 < size THEN <<>>
    ELSE <<[of |-> line.of, from |-> line.from + size - 1, len |-> line.len - (size - 1)]>>

\* atoi of a text that is no number is 0; a gender is one character.
Converted(line, field) ==
    CASE field = 3 -> IF \E p \in People : p[3].of = line.of THEN line ELSE Line("0", 1)
      [] field = 4 -> IF line.len > 1 THEN [line EXCEPT !.len = 1] ELSE line
      [] OTHER -> line

NewAgent == [fields |-> <<>>, assets |-> <<>>]
Agents == [fields : People, assets : UNION {[1 .. n -> AssetIds] : n \in 1 .. MaxAssets}]

\* An agent in the list, and one that is being read.
AgentRecord == [fields : [1 .. 5 -> Lines], assets : Seq(Lines)]
TypeOK ==
    /\ pc \in {"menu", "dump", "load", "endless", "dead"}
    /\ list \in Seq(AgentRecord) /\ end \in {"null", "wild"} /\ dirty \in BOOLEAN
    /\ file \in Seq(Lines) /\ dumped \in Seq(AgentRecord) /\ agentPosition \in Nat
    /\ input \in Seq(Lines) /\ got \in Seq(AgentRecord)
    /\ agent \in [fields : Seq(Lines), assets : Seq(Lines)] /\ Len(agent.fields) <= 5

-----------------------------------------------------------------------------
Init ==
    /\ pc = "menu"
    /\ list = <<>> /\ end = "null"
    /\ dirty = FALSE
    /\ file = NoFile /\ dumped = <<>> /\ agentPosition = 0
    /\ input = <<>> /\ agent = NewAgent /\ got = <<>>

Files == <<file, dumped, agentPosition>>
Reading == <<input, agent, got>>
InMemory == <<list, end, dirty>>

\* What malloc may leave in a next field.
Uninitialized == IF dirty THEN {"null", "wild"} ELSE {"null"}
Dies == pc' = "dead" /\ UNCHANGED <<InMemory, Files, Reading>>

\* Following the last next field.
WalkToEnd == end = "null" \/ list = <<>>

\* printAgents walks to the end and changes nothing.
PrintAgents == pc = "menu" /\ ~WalkToEnd /\ Dies

-----------------------------------------------------------------------------
(* Adding.                                                                 *)

\* addAgentToList, or main's assignment to head: new is the chain to be added, empty
\* when there was no file.
AddAgentToList(new) ==
    IF ~WalkToEnd THEN pc' = "dead" /\ UNCHANGED InMemory
    ELSE /\ list' = list \o new
         /\ end' \in (IF new = <<>> THEN {"null"} ELSE Uninitialized)
         /\ pc' = "menu"
         /\ UNCHANGED dirty

AddAgent(new) ==
    /\ pc = "menu" /\ Len(list) < MaxAgents
    /\ AddAgentToList(<<new>>)
    /\ UNCHANGED <<Files, Reading>>

\* Beyond the list the walk stops one step late: one past the end the assets are read
\* and the NULL is followed.
AddAssetsToAgent(position, assets) ==
    /\ pc = "menu" /\ list # <<>>
    /\ IF position < Len(list)
       THEN IF list[position + 1].assets = <<>> THEN Dies
            ELSE /\ Len(list[position + 1].assets \o assets) <= MaxAssets
                 /\ list' = [list EXCEPT ![position + 1].assets = @ \o assets]
                 /\ UNCHANGED <<pc, end, dirty, Files, Reading>>
       ELSE /\ position = Len(list) \/ end = "wild"
            /\ Dies

-----------------------------------------------------------------------------
(* Dumping.                                                                *)

\* fopen with "w" empties the file before anything is written.
DumpEncryptedFile ==
    /\ pc = "menu" /\ list # <<>>
    /\ \A i \in DOMAIN list : Len(list[i].assets) <= MaxAssets
    /\ pc' = "dump"
    /\ file' = <<>> /\ dumped' = <<>> /\ agentPosition' = 0
    /\ got' = <<>>
    /\ UNCHANGED <<InMemory, input, agent>>

\* What is in the file, or in the buffer of stdio, once this agent is written.
WithAgent == file \o list[agentPosition + 1].fields \o list[agentPosition + 1].assets

\* dumpEncryptedAgent for an agent that has a next.
DumpEncryptedAgent ==
    /\ pc = "dump" /\ agentPosition + 1 < Len(list)
    /\ file' = Append(WithAgent, AgentEnd)
    /\ agentPosition' = agentPosition + 1
    /\ UNCHANGED <<pc, dumped, InMemory, Reading>>

\* Mutant: the last agent is marked as the others are.
DumpEnds_ReadsBack ==
    /\ pc = "dump" /\ agentPosition + 1 = Len(list) /\ WalkToEnd
    /\ file' = Append(WithAgent, AgentEnd) /\ dumped' = list /\ agentPosition' = 0
    /\ dirty' = TRUE
    /\ pc' = "menu"
    /\ UNCHANGED <<list, end, Reading>>
\* The last agent, the mark of the end, and fclose.
DumpEnds ==
    /\ pc = "dump" /\ agentPosition + 1 = Len(list) /\ WalkToEnd
    /\ file' = Append(WithAgent, FileEnd) /\ dumped' = list /\ agentPosition' = 0
    /\ dirty' = TRUE
    /\ pc' = "menu"
    /\ UNCHANGED <<list, end, Reading>>

\* The process ends while it writes: killed, or by a walk over the end, before which the
\* mark of a next agent is written.  What stdio had flushed by then is in the file.
DumpStops ==
    LET lines == IF WalkToEnd THEN WithAgent ELSE Append(WithAgent, AgentEnd) IN
    /\ pc = "dump"
    /\ \E n \in 0 .. Len(lines) : file' = SubSeq(lines, 1, n)
    /\ pc' = "dead" /\ agentPosition' = 0
    /\ UNCHANGED <<dumped, InMemory, Reading>>

-----------------------------------------------------------------------------
(* Loading: one line read in each step.                                    *)

LoadEncryptedFile ==
    /\ pc = "menu" /\ file # NoFile
    /\ Len(list) + Len(SelectSeq(file, LAMBDA l : l \in {AgentEnd, FileEnd})) <= MaxAgents
    /\ pc' = "load"
    /\ input' = file /\ agent' = NewAgent /\ got' = <<>>
    /\ UNCHANGED <<InMemory, Files>>

\* Without a file the NULL is added to the list.
LoadNothing ==
    /\ pc = "menu" /\ file = NoFile
    /\ AddAgentToList(<<>>)
    /\ UNCHANGED <<Files, Reading>>

LoadField ==
    LET field == Len(agent.fields) + 1
        line == Head(input) IN
    /\ pc = "load" /\ input # <<>> /\ field <= 5
    /\ agent' = [agent EXCEPT !.fields = Append(@, Converted(Taken(line, FieldBuff[field]), field))]
    /\ input' = Left(line, FieldBuff[field]) \o Tail(input)
    /\ UNCHANGED <<pc, got, InMemory, Files>>

LoadAsset ==
    LET line == Head(input)
        asset == Taken(line, AssetBuff) IN
    /\ pc = "load" /\ input # <<>> /\ Len(agent.fields) = 5
    /\ input' = Left(line, AssetBuff) \o Tail(input)
    /\ UNCHANGED Files
    /\ CASE asset = FileEnd -> /\ AddAgentToList(Append(got, agent))
                               /\ UNCHANGED agent
                               /\ got' = Append(got, agent)
         [] asset = AgentEnd -> /\ got' = Append(got, agent)
                                /\ agent' = NewAgent
                                /\ UNCHANGED <<pc, InMemory>>
         [] OTHER -> /\ agent' = [agent EXCEPT !.assets = Append(@, asset)]
                     /\ UNCHANGED <<pc, got, InMemory>>

\* At the end of a file without FileEnd nothing more is read, nobody looks at the result
\* of readFileLine and the loop allocates assets until there is no memory.
LoadPastEnd ==
    /\ pc = "load" /\ input = <<>>
    /\ pc' = "endless"
    /\ UNCHANGED <<InMemory, Files, Reading>>

-----------------------------------------------------------------------------
\* The process is quit, killed or out of memory, and started again.
Kill == pc \in {"menu", "load", "endless"} /\ Dies
Start ==
    /\ pc = "dead"
    /\ pc' = "menu"
    /\ list' = <<>> /\ end' = "null" /\ dirty' = FALSE
    /\ input' = <<>> /\ agent' = NewAgent /\ got' = <<>>
    /\ UNCHANGED Files

AddsAgent == \E new \in Agents : Len(new.assets) = 1 /\ AddAgent(new)
AddsAssets == \E position \in 0 .. MaxAgents, a \in AssetIds : AddAssetsToAgent(position, <<a>>)

Next ==
    \/ PrintAgents \/ AddsAgent \/ AddsAssets
    \/ DumpEncryptedFile \/ DumpEncryptedAgent \/ DumpEnds \/ DumpStops
    \/ LoadEncryptedFile \/ LoadNothing \/ LoadField \/ LoadAsset \/ LoadPastEnd
    \/ Kill \/ Start

Spec == Init /\ [][Next]_vars

-----------------------------------------------------------------------------
(* Properties.                                                             *)

\* Lines are shorter than the buffers they are read back into: readString takes names of
\* one character more (util.c:46), readAge ages of two digits more (util.c:72-82).
Fits(a) == /\ \A i \in 1 .. 5 : a.fields[i].len + 1 < FieldBuff[i]
           /\ \A i \in DOMAIN a.assets : a.assets[i].len + 1 < AssetBuff
WholeDump == dumped # <<>> /\ \A i \in DOMAIN dumped : Fits(dumped[i])

\* A dump that ended, of agents whose lines fit, is read back as it was written, agent by
\* agent, by this process or a later one (dumpEncryptedFile and loadEncryptedFile,
\* util.c:429-567); and reading it comes to an end.
ReadsBack ==
    WholeDump =>
        /\ pc # "endless"
        /\ pc = "menu" /\ got # <<>> => got = dumped
        /\ pc = "load" => /\ IsStrictPrefix(got, dumped)
                          /\ IsPrefix(agent.fields, dumped[Len(got) + 1].fields)
                          /\ IsPrefix(agent.assets, dumped[Len(got) + 1].assets)

\* A load of such a dump that returns to the menu has put the agents of the dump, each
\* once and in their order, behind those the list already had, which it leaves alone
\* (loadEncryptedFile and addAgentToList, util.c:325-340, 490-567), after whatever dumps,
\* loads, kills and starts came before.  A load that dies in a list with a wild end, and
\* one of a dump cut short, are outside it.
LoadedBehind ==
    [][pc = "load" /\ pc' = "menu" /\ WholeDump => list' = list \o dumped]_vars
=============================================================================
