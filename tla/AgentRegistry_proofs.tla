------------------------ MODULE AgentRegistry_proofs ------------------------
(***************************************************************************)
(* The registry for any people, any assets and any length of the list:     *)
(* types; a complete dump is read back as it was written (ReadsBack); and  *)
(* a load puts its agents behind those of the list (LoadedBehind).         *)
(***************************************************************************)
EXTENDS AgentRegistry, SequenceTheorems, TLAPS

\* The agent that is being read has not all its fields yet.
Unfinished == [fields : Seq(Lines), assets : Seq(Lines)]

-----------------------------------------------------------------------------
(***************************************************************************)
(* Lines.                                                                  *)
(***************************************************************************)
LEMMA Marks ==
    /\ AgentEnd \in Lines /\ FileEnd \in Lines /\ Line("0", 1) \in Lines /\ NoFile \in Seq(Lines)
    /\ AgentEnd # FileEnd /\ AgentEnd.len = 8 /\ FileEnd.len = 7
<1>1. {"AgentEnd", "FileEnd", "no file", "0"} \subseteq Texts
  BY DEF Texts
<1>2. AgentEnd \in Lines /\ FileEnd \in Lines /\ Line("0", 1) \in Lines
  BY <1>1 DEF AgentEnd, FileEnd, Line, Lines
<1>3. Line("no file", 0) \in Lines
  BY <1>1 DEF Line, Lines
<1>4. NoFile \in Seq(Lines)
  <2>1. \A l \in Lines : <<l>> \in Seq(Lines)
    OBVIOUS
  <2> QED
    BY <1>3, <2>1 DEF NoFile
<1>5. AgentEnd # FileEnd /\ AgentEnd.len = 8 /\ FileEnd.len = 7
  BY DEF AgentEnd, FileEnd, Line
<1> QED
  BY <1>2, <1>4, <1>5

\* What fgets takes of a line and what it leaves for the next time.
LEMMA LineRead ==
    ASSUME NEW line \in Lines, NEW size \in Nat \ {0}
    PROVE  /\ Taken(line, size) \in Lines /\ Left(line, size) \in Seq(Lines)
           /\ line.len + 1 < size => Taken(line, size) = line /\ Left(line, size) = <<>>
<1>1. line.len \in Nat /\ line.from \in Nat
  BY DEF Lines
<1>2. [line EXCEPT !.len = size - 1] \in Lines
  BY DEF Lines
<1>3. CASE line.len + 1 < size
  BY <1>3 DEF Taken, Left
<1>4. CASE ~(line.len + 1 < size)
  <2> DEFINE rest == [of |-> line.of, from |-> line.from + size - 1, len |-> line.len - (size - 1)]
  <2>2. line.from + size - 1 \in Nat /\ line.len - (size - 1) \in Nat /\ line.of \in Texts
    BY <1>1, <1>4 DEF Lines
  <2>3. rest \in Lines
    BY <2>2 DEF Lines
  <2>4. <<rest>> \in Seq(Lines)
    BY <2>3
  <2> QED
    BY <1>2, <1>4, <2>4 DEF Taken, Left
<1> QED
  BY <1>3, <1>4

LEMMA Buffers ==
    ASSUME NEW field \in 1 .. 5
    PROVE  FieldBuff[field] \in Nat \ {0}
  BY DEF FieldBuff

\* A field that was converted once is not changed by the next conversion.
LEMMA Conversion ==
    ASSUME NEW line \in Lines, NEW field \in 1 .. 5
    PROVE  /\ Converted(line, field) \in Lines
           /\ Converted(Converted(line, field), field) = Converted(line, field)
<1>1. CASE field = 3
  <2>1. Converted(line, 3) \in {line, Line("0", 1)}
    BY DEF Converted
  <2>2. Converted(Line("0", 1), 3) = Line("0", 1)
    BY DEF Converted
  <2>3. Converted(line, 3) = line => Converted(Converted(line, 3), 3) = Converted(line, 3)
    OBVIOUS
  <2> QED
    BY <1>1, <2>1, <2>2, <2>3, Marks
<1>2. CASE field = 4
  <2>1. line.len \in Nat
    BY DEF Lines
  <2>2. [line EXCEPT !.len = 1] \in Lines /\ [line EXCEPT !.len = 1].len = 1
    BY DEF Lines
  <2> QED
    BY <1>2, <2>1, <2>2 DEF Converted
<1>3. CASE field \notin {3, 4}
  BY <1>3 DEF Converted
<1> QED
  BY <1>1, <1>2, <1>3

\* An agent that is typed in.
LEMMA Typed ==
    ASSUME NEW new \in Agents
    PROVE  /\ new \in AgentRecord /\ new.assets \in Seq(AssetIds)
           /\ new.fields \in People
<1>1. PICK n \in 1 .. MaxAssets : new.assets \in [1 .. n -> AssetIds]
  BY DEF Agents
<1>2. n \in Nat
  BY BoundsAssumption
<1>3. new.assets \in Seq(AssetIds)
  BY <1>1, <1>2
<1>4. new.assets \in Seq(Lines)
  BY <1>3, TypedAssumption, SeqMonotonic
<1> QED
  BY <1>3, <1>4, TypedAssumption DEF Agents, AgentRecord

-----------------------------------------------------------------------------
(***************************************************************************)
(* Types.                                                                  *)
(***************************************************************************)
LEMMA NewType == NewAgent \in Unfinished /\ Len(NewAgent.fields) = 0 /\ Len(NewAgent.assets) = 0
  BY DEF NewAgent, Unfinished

\* An agent with all its fields.
LEMMA Finished ==
    ASSUME NEW a \in Unfinished, Len(a.fields) = 5
    PROVE  a \in AgentRecord
<1>1. a.fields \in [1 .. Len(a.fields) -> Lines]
  BY LenProperties DEF Unfinished
<1> QED
  BY <1>1 DEF Unfinished, AgentRecord

LEMMA AddingType ==
    ASSUME list \in Seq(AgentRecord), end \in {"null", "wild"}, dirty \in BOOLEAN,
           NEW new \in Seq(AgentRecord), AddAgentToList(new)
    PROVE  /\ list' \in Seq(AgentRecord) /\ end' \in {"null", "wild"} /\ dirty' \in BOOLEAN
           /\ pc' \in {"menu", "dead"}
           /\ list' = list \/ list' = list \o new
<1>1. list \o new \in Seq(AgentRecord)
  OBVIOUS
<1>2. (IF new = <<>> THEN {"null"} ELSE Uninitialized) \subseteq {"null", "wild"}
  BY DEF Uninitialized
<1>3. CASE ~WalkToEnd
  BY <1>3 DEF AddAgentToList, InMemory
<1>4. CASE WalkToEnd
  BY <1>1, <1>2, <1>4 DEF AddAgentToList
<1> QED
  BY <1>3, <1>4

LEMMA AddingAssetsType ==
    ASSUME list \in Seq(AgentRecord), NEW position \in 0 .. MaxAgents, NEW a \in AssetIds,
           AddAssetsToAgent(position, <<a>>)
    PROVE  /\ list' \in Seq(AgentRecord)
           /\ \/ list' = list
              \/ /\ position + 1 \in 1 .. Len(list)
                 /\ list' = [list EXCEPT ![position + 1].assets = @ \o <<a>>]
<1>1. CASE UNCHANGED list
  BY <1>1
<1>2. CASE /\ position < Len(list)
           /\ list' = [list EXCEPT ![position + 1].assets = @ \o <<a>>]
  <2>1. position + 1 \in 1 .. Len(list) /\ a \in Lines
    BY <1>2, BoundsAssumption, TypedAssumption
  <2>2. list[position + 1] \in AgentRecord
    BY <2>1
  <2>3. list[position + 1].assets \o <<a>> \in Seq(Lines)
    BY <2>1, <2>2 DEF AgentRecord
  <2>4. [list[position + 1] EXCEPT !.assets = list[position + 1].assets \o <<a>>] \in AgentRecord
    BY <2>2, <2>3 DEF AgentRecord
  <2> QED
    BY <1>2, <2>1, <2>4
<1> QED
  BY <1>1, <1>2 DEF AddAssetsToAgent, Dies, InMemory

LEMMA TypeInit == Init => TypeOK
<1> SUFFICES ASSUME Init PROVE TypeOK
  OBVIOUS
<1>1. <<>> \in Seq(Lines) /\ <<>> \in Seq(AgentRecord)
  OBVIOUS
<1>2. agent \in [fields : Seq(Lines), assets : Seq(Lines)] /\ Len(agent.fields) <= 5
  BY NewType DEF Init, Unfinished
<1> QED
  BY <1>1, <1>2, Marks DEF Init, TypeOK

LEMMA WrittenType ==
    ASSUME TypeOK, pc = "dump", agentPosition + 1 <= Len(list)
    PROVE  WithAgent \in Seq(Lines)
<1>1. agentPosition + 1 \in 1 .. Len(list)
  BY DEF TypeOK
<1>2. list[agentPosition + 1] \in AgentRecord
  BY <1>1 DEF TypeOK
<1>3. [1 .. 5 -> Lines] \subseteq Seq(Lines)
  BY SeqDef
<1>4. list[agentPosition + 1].fields \in Seq(Lines) /\ list[agentPosition + 1].assets \in Seq(Lines)
  BY <1>2, <1>3 DEF AgentRecord
<1> QED
  BY <1>4 DEF WithAgent, TypeOK

\* The dump stands at an agent of the list, which is not changed while it is written.
DumpPlace == pc = "dump" => agentPosition + 1 \in 1 .. Len(list)

LEMMA ScalarTypeNext ==
    ASSUME TypeOK, DumpPlace, [Next]_vars
    PROVE  /\ pc' \in {"menu", "dump", "load", "endless", "dead"}
           /\ agentPosition' \in Nat
           /\ DumpPlace'
<1> USE DEF TypeOK, DumpPlace, InMemory, Files, Reading, Dies
<1>1. CASE PrintAgents \/ Kill \/ LoadPastEnd \/ Start
  BY <1>1 DEF PrintAgents, Kill, LoadPastEnd, Start
<1>2. CASE AddsAgent
  BY <1>2 DEF AddsAgent, AddAgent, AddAgentToList
<1>3. CASE AddsAssets
  BY <1>3 DEF AddsAssets, AddAssetsToAgent
<1>4. CASE DumpEncryptedFile
  <2>1. Len(list) # 0 /\ Len(list) \in Nat
    BY <1>4, EmptySeq DEF DumpEncryptedFile
  <2> QED
    BY <1>4, <2>1 DEF DumpEncryptedFile
<1>5. CASE DumpEncryptedAgent
  BY <1>5 DEF DumpEncryptedAgent
<1>6. CASE DumpEnds \/ DumpStops
  BY <1>6 DEF DumpEnds, DumpStops
<1>7. CASE LoadEncryptedFile \/ LoadNothing \/ LoadField
  BY <1>7 DEF LoadEncryptedFile, LoadNothing, LoadField, AddAgentToList
<1>8. CASE LoadAsset
  BY <1>8 DEF LoadAsset, AddAgentToList
<1>9. CASE UNCHANGED vars
  BY <1>9 DEF vars
<1> QED
  BY <1>1, <1>2, <1>3, <1>4, <1>5, <1>6, <1>7, <1>8, <1>9 DEF Next

\* What a step of a load reads.
LEMMA FieldRead ==
    ASSUME TypeOK, LoadField
    PROVE  /\ Len(agent.fields) + 1 \in 1 .. 5 /\ input # <<>> /\ Head(input) \in Lines
           /\ agent' = [fields |-> Append(agent.fields,
                             Converted(Taken(Head(input), FieldBuff[Len(agent.fields) + 1]),
                                       Len(agent.fields) + 1)),
                        assets |-> agent.assets]
           /\ input' = Left(Head(input), FieldBuff[Len(agent.fields) + 1]) \o Tail(input)
           /\ agent' \in Unfinished /\ Len(agent'.fields) = Len(agent.fields) + 1
           /\ input' \in Seq(Lines)
           /\ UNCHANGED <<pc, got, list, end, dirty, file, dumped, agentPosition>>
<1> DEFINE field == Len(agent.fields) + 1
           line == Head(input)
           x == Converted(Taken(line, FieldBuff[field]), field)
<1>1. agent.fields \in Seq(Lines) /\ agent.assets \in Seq(Lines) /\ input \in Seq(Lines)
  BY DEF TypeOK
<1>2. field \in 1 .. 5 /\ input # <<>>
  <2>1. field <= 5 /\ input # <<>>
    BY DEF LoadField
  <2> QED
    BY <1>1, <2>1
<1>3. line \in Lines /\ Tail(input) \in Seq(Lines)
  BY <1>1, <1>2, HeadTailProperties
<1>4. x \in Lines /\ Left(line, FieldBuff[field]) \in Seq(Lines)
  BY <1>2, <1>3, Buffers, LineRead, Conversion
<1>5. agent' = [fields |-> Append(agent.fields, x), assets |-> agent.assets]
  <2>1. agent = [fields |-> agent.fields, assets |-> agent.assets]
    BY DEF TypeOK
  <2>2. \A y : [agent EXCEPT !.fields = y] = [fields |-> y, assets |-> agent.assets]
    BY <2>1
  <2>3. agent' = [agent EXCEPT !.fields = Append(agent.fields, x)]
    BY DEF LoadField
  <2> QED
    BY <2>2, <2>3
<1>6. input' = Left(line, FieldBuff[field]) \o Tail(input)
  BY DEF LoadField
<1> HIDE DEF x
<1>7. Append(agent.fields, x) \in Seq(Lines) /\ Len(Append(agent.fields, x)) = Len(agent.fields) + 1
  BY <1>1, <1>4
<1>8. input' \in Seq(Lines)
  BY <1>3, <1>4, <1>6
<1>9. agent' \in Unfinished /\ Len(agent'.fields) = Len(agent.fields) + 1
  BY <1>1, <1>5, <1>7 DEF Unfinished
<1>10. UNCHANGED <<pc, got, list, end, dirty, file, dumped, agentPosition>>
  BY DEF LoadField, InMemory, Files
<1> QED
  BY <1>2, <1>3, <1>5, <1>6, <1>8, <1>9, <1>10 DEF x

LEMMA AssetRead ==
    ASSUME TypeOK, LoadAsset
    PROVE  /\ Len(agent.fields) = 5 /\ pc = "load" /\ input # <<>> /\ Head(input) \in Lines
           /\ Taken(Head(input), AssetBuff) \in Lines
           /\ input' = Left(Head(input), AssetBuff) \o Tail(input) /\ input' \in Seq(Lines)
           /\ UNCHANGED <<file, dumped, agentPosition>>
           /\ \/ /\ Taken(Head(input), AssetBuff) = FileEnd
                 /\ AddAgentToList(Append(got, agent))
                 /\ agent' = agent /\ got' = Append(got, agent)
              \/ /\ Taken(Head(input), AssetBuff) = AgentEnd
                 /\ agent' = NewAgent /\ got' = Append(got, agent)
                 /\ UNCHANGED <<pc, list, end, dirty>>
              \/ /\ Taken(Head(input), AssetBuff) \notin {AgentEnd, FileEnd}
                 /\ agent' = [fields |-> agent.fields,
                              assets |-> Append(agent.assets, Taken(Head(input), AssetBuff))]
                 /\ UNCHANGED <<pc, got, list, end, dirty>>
<1>1. agent.assets \in Seq(Lines) /\ input \in Seq(Lines) /\ input # <<>>
  BY DEF TypeOK, LoadAsset
<1>2. Head(input) \in Lines /\ Tail(input) \in Seq(Lines)
  BY <1>1, HeadTailProperties
<1>3. /\ Taken(Head(input), AssetBuff) \in Lines
      /\ Left(Head(input), AssetBuff) \o Tail(input) \in Seq(Lines)
  <2>1. AssetBuff \in Nat \ {0}
    BY DEF AssetBuff
  <2>2. Left(Head(input), AssetBuff) \in Seq(Lines) /\ Taken(Head(input), AssetBuff) \in Lines
    BY <1>2, <2>1, LineRead
  <2> QED
    BY <1>2, <2>2
<1>4. \A y : [agent EXCEPT !.assets = Append(@, y)]
             = [fields |-> agent.fields, assets |-> Append(agent.assets, y)]
  <2>1. agent = [fields |-> agent.fields, assets |-> agent.assets]
    BY DEF TypeOK
  <2>2. \A z : [agent EXCEPT !.assets = z] = [fields |-> agent.fields, assets |-> z]
    BY <2>1
  <2>3. \A y : [agent EXCEPT !.assets = Append(@, y)]
               = [agent EXCEPT !.assets = Append(agent.assets, y)]
    OBVIOUS
  <2> QED
    BY <2>2, <2>3
<1> QED
  BY <1>1, <1>2, <1>3, <1>4, Marks DEF LoadAsset, InMemory, Files

LEMMA TypeNext == TypeOK /\ DumpPlace /\ [Next]_vars => TypeOK' /\ DumpPlace'
<1> SUFFICES ASSUME TypeOK, DumpPlace, [Next]_vars PROVE TypeOK' /\ DumpPlace'
  OBVIOUS
<1> DEFINE MemoryOK == /\ list \in Seq(AgentRecord) /\ end \in {"null", "wild"}
                       /\ dirty \in BOOLEAN
           FilesOK == file \in Seq(Lines) /\ dumped \in Seq(AgentRecord)
           ReadingOK == /\ input \in Seq(Lines) /\ got \in Seq(AgentRecord)
                        /\ agent \in Unfinished /\ Len(agent.fields) <= 5
<1>0. MemoryOK /\ FilesOK /\ ReadingOK /\ <<>> \in Seq(Lines) /\ <<>> \in Seq(AgentRecord)
  BY DEF TypeOK, Unfinished
<1>1. MemoryOK' /\ FilesOK' /\ ReadingOK'
  <2>1. CASE PrintAgents \/ Kill \/ LoadPastEnd \/ UNCHANGED vars
    BY <1>0, <2>1 DEF PrintAgents, Kill, LoadPastEnd, Dies, InMemory, Files, Reading, vars
  <2>2. CASE Start
    <3>1. agent' = NewAgent /\ got' = <<>> /\ input' = <<>>
      BY <2>2 DEF Start
    <3>2. ReadingOK'
      BY <1>0, <3>1, NewType
    <3> QED
      BY <1>0, <2>2, <3>2 DEF Start, Files
  <2>3. CASE AddsAgent
    <3>1. PICK new \in Agents : AddAgent(new)
      BY <2>3 DEF AddsAgent
    <3>2. <<new>> \in Seq(AgentRecord)
      BY Typed
    <3>3. MemoryOK'
      BY <1>0, <3>1, <3>2, AddingType DEF AddAgent
    <3> QED
      BY <1>0, <3>1, <3>3 DEF AddAgent, Files, Reading
  <2>4. CASE AddsAssets
    <3>1. PICK position \in 0 .. MaxAgents, a \in AssetIds : AddAssetsToAgent(position, <<a>>)
      BY <2>4 DEF AddsAssets
    <3>2. list' \in Seq(AgentRecord)
      BY <1>0, <3>1, AddingAssetsType
    <3> QED
      BY <1>0, <3>1, <3>2 DEF AddAssetsToAgent, Dies, InMemory, Files, Reading
  <2>5. CASE DumpEncryptedFile \/ LoadEncryptedFile
    <3>1. CASE DumpEncryptedFile
      BY <1>0, <3>1 DEF DumpEncryptedFile, InMemory
    <3>2. CASE LoadEncryptedFile
      <4>1. agent' = NewAgent /\ got' = <<>> /\ input' = file
        BY <3>2 DEF LoadEncryptedFile
      <4>2. ReadingOK'
        BY <1>0, <4>1, NewType
      <4> QED
        BY <1>0, <3>2, <4>2 DEF LoadEncryptedFile, InMemory, Files
    <3> QED
      BY <2>5, <3>1, <3>2
  <2>6. CASE DumpEncryptedAgent \/ DumpEnds \/ DumpStops
    <3>1. WithAgent \in Seq(Lines)
      BY <2>6, WrittenType DEF DumpPlace, TypeOK, DumpEncryptedAgent, DumpEnds, DumpStops
    <3>2. Append(WithAgent, AgentEnd) \in Seq(Lines) /\ Append(WithAgent, FileEnd) \in Seq(Lines)
      BY <3>1, Marks
    <3>3. ASSUME NEW s \in Seq(Lines), NEW n \in 0 .. Len(s)
          PROVE  SubSeq(s, 1, n) \in Seq(Lines)
      BY SubSeqProperties
    <3>4. file' \in Seq(Lines)
      BY <2>6, <3>1, <3>2, <3>3 DEF DumpEncryptedAgent, DumpEnds, DumpStops
    <3> QED
      BY <1>0, <2>6, <3>4 DEF DumpEncryptedAgent, DumpEnds, DumpStops, InMemory, Reading
  <2>7. CASE LoadNothing
    <3>1. MemoryOK'
      BY <1>0, <2>7, AddingType DEF LoadNothing
    <3> QED
      BY <1>0, <2>7, <3>1 DEF LoadNothing, Files, Reading
  <2>8. CASE LoadField
    BY <1>0, <2>8, FieldRead
  <2>9. CASE LoadAsset
    <3>1. agent \in AgentRecord
      BY <1>0, <2>9, AssetRead, Finished
    <3>2. Append(got, agent) \in Seq(AgentRecord)
      BY <1>0, <3>1
    <3>3. CASE agent' = agent /\ got' = Append(got, agent) /\ AddAgentToList(Append(got, agent))
      BY <1>0, <2>9, <3>2, <3>3, AssetRead, AddingType
    <3>4. CASE agent' = NewAgent /\ got' = Append(got, agent) /\ UNCHANGED <<list, end, dirty>>
      BY <1>0, <2>9, <3>2, <3>4, AssetRead, NewType
    <3>5. CASE /\ agent' = [fields |-> agent.fields,
                            assets |-> Append(agent.assets, Taken(Head(input), AssetBuff))]
               /\ UNCHANGED <<got, list, end, dirty>>
      <4>1. Append(agent.assets, Taken(Head(input), AssetBuff)) \in Seq(Lines)
        BY <1>0, <2>9, AssetRead DEF Unfinished
      <4>2. agent' \in Unfinished /\ agent'.fields = agent.fields
        BY <1>0, <3>5, <4>1 DEF Unfinished
      <4> QED
        BY <1>0, <2>9, <3>5, <4>2, AssetRead
    <3> QED
      BY <2>9, <3>3, <3>4, <3>5, AssetRead
  <2> QED
    BY <2>1, <2>2, <2>3, <2>4, <2>5, <2>6, <2>7, <2>8, <2>9 DEF Next
<1> QED
  BY <1>1, ScalarTypeNext DEF TypeOK, Unfinished

LEMMA TypeInvariant == Spec => [](TypeOK /\ DumpPlace)
<1>1. Init => DumpPlace
  BY DEF Init, DumpPlace
<1> QED
  BY <1>1, TypeInit, TypeNext, PTL DEF Spec

\* The list, the lines of the file and the agents that are read keep their types; a dump
\* always stands at an agent of the list.
THEOREM TypeCorrect == Spec => []TypeOK
  BY TypeInvariant, PTL

-----------------------------------------------------------------------------
(***************************************************************************)
(* What is dumped is read back.  First, what is in an agent: fields that   *)
(* another conversion does not change, and assets that are no marks.       *)
(***************************************************************************)
Settled(a) ==
    /\ \A i \in 1 .. Len(a.fields) : Converted(a.fields[i], i) = a.fields[i]
    /\ \A i \in 1 .. Len(a.assets) : a.assets[i] \notin {AgentEnd, FileEnd}

AllSettled(agents) == \A i \in 1 .. Len(agents) : Settled(agents[i])

SettledInv == Settled(agent) /\ AllSettled(list) /\ AllSettled(got) /\ AllSettled(dumped)

LEMMA SettledTyped ==
    ASSUME NEW new \in Agents
    PROVE  Settled(new) /\ AllSettled(<<new>>)
<1>1. new.fields \in People /\ new.assets \in Seq(AssetIds)
  BY Typed
<1>2. new.fields \in [1 .. 5 -> Lines] /\ new.fields[4].len = 1
  BY <1>1, TypedAssumption
<1>3. Len(new.fields) = 5
  <2>1. new.fields \in Seq(Lines)
    BY <1>2, SeqDef
  <2> QED
    BY <1>2, <2>1, LenProperties
<1>4. ASSUME NEW i \in 1 .. 5 PROVE Converted(new.fields[i], i) = new.fields[i]
  <2>1. CASE i = 3
    <3>1. \E p \in People : p[3].of = new.fields[3].of
      BY <1>1
    <3> QED
      BY <2>1, <3>1 DEF Converted
  <2>2. CASE i = 4
    BY <1>2, <2>2 DEF Converted
  <2>3. CASE i \notin {3, 4}
    BY <2>3 DEF Converted
  <2> QED
    BY <2>1, <2>2, <2>3
<1>5. ASSUME NEW i \in 1 .. Len(new.assets) PROVE new.assets[i] \notin {AgentEnd, FileEnd}
  <2>1. new.assets[i] \in AssetIds
    BY <1>1
  <2>2. new.assets[i].len = 13
    BY <2>1, TypedAssumption
  <2> QED
    BY <2>2, Marks
<1>6. Settled(new)
  BY <1>3, <1>4, <1>5 DEF Settled
<1> QED
  BY <1>6 DEF AllSettled

LEMMA SettledMore ==
    ASSUME NEW agents \in Seq(AgentRecord), NEW more \in Seq(AgentRecord),
           AllSettled(agents), AllSettled(more)
    PROVE  AllSettled(agents \o more)
<1>1. ASSUME NEW i \in 1 .. Len(agents \o more) PROVE Settled((agents \o more)[i])
  <2>1. CASE i \in 1 .. Len(agents)
    <3>1. (agents \o more)[i] = agents[i]
      BY <2>1
    <3> QED
      BY <2>1, <3>1 DEF AllSettled
  <2>2. CASE i \notin 1 .. Len(agents)
    <3>1. i - Len(agents) \in 1 .. Len(more) /\ (agents \o more)[i] = more[i - Len(agents)]
      BY <2>2
    <3> QED
      BY <3>1 DEF AllSettled
  <2> QED
    BY <2>1, <2>2
<1> QED
  BY <1>1 DEF AllSettled

LEMMA SettledNew == Settled(NewAgent) /\ AllSettled(<<>>)
  BY DEF Settled, AllSettled, NewAgent

LEMMA SettledAsset ==
    ASSUME NEW a \in AgentRecord, NEW more \in Seq(Lines), Settled(a),
           \A i \in 1 .. Len(more) : more[i] \notin {AgentEnd, FileEnd},
           NEW b, b.fields = a.fields, b.assets = a.assets \o more
    PROVE  Settled(b)
<1>1. a.assets \in Seq(Lines)
  BY DEF AgentRecord
<1>2. ASSUME NEW i \in 1 .. Len(b.assets) PROVE b.assets[i] \notin {AgentEnd, FileEnd}
  <2>1. CASE i \in 1 .. Len(a.assets)
    BY <1>1, <2>1 DEF Settled
  <2>2. CASE i \notin 1 .. Len(a.assets)
    <3>1. i - Len(a.assets) \in 1 .. Len(more) /\ b.assets[i] = more[i - Len(a.assets)]
      BY <1>1, <2>2
    <3> QED
      BY <3>1
  <2> QED
    BY <2>1, <2>2
<1> QED
  BY <1>2 DEF Settled

LEMMA SettledRead ==
    ASSUME TypeOK, SettledInv, LoadField \/ LoadAsset
    PROVE  Settled(agent')
<1>1. agent.fields \in Seq(Lines) /\ agent.assets \in Seq(Lines) /\ Settled(agent)
  BY DEF TypeOK, SettledInv
<1>2. CASE LoadField
  <2> DEFINE n == Len(agent.fields) + 1
             line == Taken(Head(input), FieldBuff[n])
             x == Converted(line, n)
  <2>1. n \in 1 .. 5 /\ agent'.fields = Append(agent.fields, x) /\ agent'.assets = agent.assets
    BY <1>2, FieldRead
  <2>2. line \in Lines
    BY <1>2, <2>1, FieldRead, Buffers, LineRead
  <2>3. x \in Lines /\ Converted(x, n) = x
    BY <2>1, <2>2, Conversion
  <2> HIDE DEF x
  <2>4. ASSUME NEW i \in 1 .. Len(agent'.fields)
        PROVE  Converted(agent'.fields[i], i) = agent'.fields[i]
    <3>1. CASE i = n
      BY <1>1, <2>1, <2>3, <3>1
    <3>2. CASE i # n
      <4>1. i \in 1 .. Len(agent.fields) /\ agent'.fields[i] = agent.fields[i]
        BY <1>1, <2>1, <2>3, <3>2
      <4> QED
        BY <1>1, <4>1 DEF Settled
    <3> QED
      BY <3>1, <3>2
  <2> QED
    BY <1>1, <2>1, <2>4 DEF Settled
<1>3. CASE LoadAsset
  <2> DEFINE x == Taken(Head(input), AssetBuff)
  <2>1. CASE agent' = agent \/ agent' = NewAgent
    BY <1>1, <2>1, SettledNew
  <2>2. CASE x \notin {AgentEnd, FileEnd} /\ agent' = [fields |-> agent.fields, assets |-> Append(agent.assets, x)]
    <3>1. x \in Lines
      BY <1>3, AssetRead
    <3> HIDE DEF x
    <3>2. ASSUME NEW i \in 1 .. Len(agent'.assets) PROVE agent'.assets[i] \notin {AgentEnd, FileEnd}
      BY <1>1, <2>2, <3>1 DEF Settled
    <3> QED
      BY <1>1, <2>2, <3>2 DEF Settled
  <2> QED
    BY <1>3, <2>1, <2>2, AssetRead
<1> QED
  BY <1>2, <1>3

LEMMA SettledNext ==
    ASSUME TypeOK, SettledInv, [Next]_vars
    PROVE  SettledInv'
<1>0. /\ Settled(agent) /\ AllSettled(list) /\ AllSettled(got) /\ AllSettled(dumped)
      /\ list \in Seq(AgentRecord) /\ got \in Seq(AgentRecord)
  BY DEF SettledInv, TypeOK
<1>1. CASE PrintAgents \/ Kill \/ LoadPastEnd \/ UNCHANGED vars
  BY <1>0, <1>1 DEF PrintAgents, Kill, LoadPastEnd, Dies, InMemory, Files, Reading, vars, SettledInv
<1>2. CASE Start
  BY <1>0, <1>2, SettledNew DEF Start, Files, SettledInv
<1>3. CASE AddsAgent
  <2>1. PICK new \in Agents : AddAgent(new)
    BY <1>3 DEF AddsAgent
  <2>2. list' = list \/ list' = list \o <<new>>
    BY <2>1 DEF AddAgent, AddAgentToList, InMemory
  <2>3. <<new>> \in Seq(AgentRecord)
    BY Typed
  <2>4. AllSettled(list')
    BY <1>0, <2>2, <2>3, SettledTyped, SettledMore
  <2> QED
    BY <1>0, <2>1, <2>4 DEF AddAgent, Files, Reading, SettledInv
<1>4. CASE AddsAssets
  <2>1. PICK position \in 0 .. MaxAgents, a \in AssetIds : AddAssetsToAgent(position, <<a>>)
    BY <1>4 DEF AddsAssets
  <2>2. AllSettled(list')
    <3>1. CASE list' = list
      BY <1>0, <3>1
    <3>2. CASE /\ position + 1 \in 1 .. Len(list)
               /\ list' = [list EXCEPT ![position + 1].assets = @ \o <<a>>]
      <4> DEFINE old == list[position + 1]
                 new == [old EXCEPT !.assets = old.assets \o <<a>>]
      <4>1. old \in AgentRecord /\ Settled(old)
        BY <1>0, <3>2 DEF AllSettled
      <4>2. new.fields = old.fields /\ new.assets = old.assets \o <<a>>
        BY <4>1 DEF AgentRecord
      <4>3. a \in Lines /\ a \notin {AgentEnd, FileEnd}
        BY Marks, TypedAssumption
      <4>4. Settled(new)
        <5>1. <<a>> \in Seq(Lines) /\ \A i \in 1 .. Len(<<a>>) : <<a>>[i] \notin {AgentEnd, FileEnd}
          BY <4>3
        <5> HIDE DEF old, new
        <5> QED
          BY <4>1, <4>2, <5>1, SettledAsset
      <4>5. list' = [list EXCEPT ![position + 1] = new]
        BY <3>2
      <4> HIDE DEF new
      <4>6. DOMAIN list = 1 .. Len(list) /\ DOMAIN list' = DOMAIN list
        BY <1>0, <4>5
      <4>7. Len(list') = Len(list)
        <5>1. list' \in Seq(AgentRecord)
          BY <1>0, <2>1, AddingAssetsType
        <5> QED
          BY <1>0, <4>6, <5>1, LenProperties
      <4>8. ASSUME NEW i \in 1 .. Len(list) PROVE Settled(list'[i])
        <5>1. list'[i] = IF i = position + 1 THEN new ELSE list[i]
          BY <1>0, <4>5, <4>6
        <5> QED
          BY <1>0, <4>4, <5>1 DEF AllSettled
      <4> QED
        BY <4>7, <4>8 DEF AllSettled
    <3> QED
      BY <1>0, <2>1, <3>1, <3>2, AddingAssetsType
  <2> QED
    BY <1>0, <2>1, <2>2 DEF AddAssetsToAgent, Dies, Files, Reading, SettledInv
<1>5. CASE DumpEncryptedFile \/ DumpEncryptedAgent \/ DumpEnds \/ DumpStops
  BY <1>0, <1>5, SettledNew DEF DumpEncryptedFile, DumpEncryptedAgent, DumpEnds, DumpStops,
     InMemory, Reading, SettledInv
<1>6. CASE LoadEncryptedFile
  BY <1>0, <1>6, SettledNew DEF LoadEncryptedFile, InMemory, Files, SettledInv
<1>7. CASE LoadNothing
  <2>1. list' = list \/ list' = list \o <<>>
    BY <1>7 DEF LoadNothing, AddAgentToList, InMemory
  <2> QED
    BY <1>0, <1>7, <2>1, SettledNew, SettledMore DEF LoadNothing, Files, Reading, SettledInv
<1>8. CASE LoadField
  BY <1>0, <1>8, SettledRead, FieldRead DEF SettledInv
<1>9. CASE LoadAsset
  <2>1. agent \in AgentRecord
    BY <1>9, AssetRead, Finished DEF TypeOK, Unfinished
  <2>2. <<agent>> \in Seq(AgentRecord) /\ Append(got, agent) = got \o <<agent>> /\ AllSettled(<<agent>>)
    BY <1>0, <2>1, AppendIsConcat DEF AllSettled
  <2>3. AllSettled(Append(got, agent)) /\ Append(got, agent) \in Seq(AgentRecord)
    <3>1. AllSettled(got \o <<agent>>)
      BY <1>0, <2>2, SettledMore
    <3>2. Append(got, agent) \in Seq(AgentRecord)
      BY <1>0, <2>1
    <3> QED
      BY <2>2, <3>1, <3>2
  <2>4. got' = got \/ got' = Append(got, agent)
    BY <1>9, AssetRead
  <2>5. list' = list \/ list' = list \o Append(got, agent)
    BY <1>9, AssetRead DEF AddAgentToList, InMemory
  <2>6. AllSettled(list')
    BY <1>0, <2>3, <2>5, SettledMore
  <2> QED
    BY <1>0, <1>9, <2>3, <2>4, <2>6, SettledRead, AssetRead DEF SettledInv
<1> QED
  BY <1>1, <1>2, <1>3, <1>4, <1>5, <1>6, <1>7, <1>8, <1>9 DEF Next

-----------------------------------------------------------------------------
(***************************************************************************)
(* Where the lines are.  The lines of the first n agents begin after the   *)
(* numbers of lines in starts; a mark follows each of them.                *)
(***************************************************************************)
Written(lines, agents, n, starts, mark) ==
    /\ starts \in [1 .. n + 1 -> 0 .. Len(lines)]
    /\ starts[1] = 0 /\ starts[n + 1] = Len(lines)
    /\ \A i \in 1 .. n :
          /\ starts[i + 1] = starts[i] + 5 + Len(agents[i].assets) + 1
          /\ \A k \in 1 .. 5 : lines[starts[i] + k] = agents[i].fields[k]
          /\ \A k \in 1 .. Len(agents[i].assets) : lines[starts[i] + 5 + k] = agents[i].assets[k]
          /\ lines[starts[i + 1]] = IF i = n THEN mark ELSE AgentEnd

\* A load that stands in the file: agents it has, fields and assets it has, and what is left.
LoadsAt(starts) ==
    LET i == Len(got) + 1
        k == starts[i] + Len(agent.fields) + Len(agent.assets) IN
    /\ i \in 1 .. Len(dumped) /\ \A j \in 1 .. Len(got) : got[j] = dumped[j]
    /\ \A j \in 1 .. Len(agent.fields) : agent.fields[j] = dumped[i].fields[j]
    /\ Len(agent.assets) <= Len(dumped[i].assets)
    /\ \A j \in 1 .. Len(agent.assets) : agent.assets[j] = dumped[i].assets[j]
    /\ Len(agent.assets) > 0 => Len(agent.fields) = 5
    /\ Len(input) = Len(file) - k
    /\ \A j \in 1 .. Len(input) : input[j] = file[k + j]

\* While the file is written it is no dump; what is written of it is of the list.
DumpInv ==
    pc = "dump" =>
        /\ dumped = <<>> /\ got = <<>>
        /\ \E starts : Written(file, list, agentPosition, starts, AgentEnd)

FileInv ==
    dumped # <<>> =>
        \E starts : /\ Written(file, dumped, Len(dumped), starts, FileEnd)
                    /\ pc = "load" /\ WholeDump => LoadsAt(starts)

\* After a load that ended.
ReadInv == WholeDump => /\ pc # "endless"
                        /\ pc = "menu" /\ got # <<>> => got = dumped

LEMMA FiveLines ==
    ASSUME NEW f \in [1 .. 5 -> Lines]
    PROVE  f \in Seq(Lines) /\ Len(f) = 5
<1>1. f \in Seq(Lines)
  BY SeqDef
<1> QED
  BY <1>1, LenProperties

LEMMA Joined ==
    ASSUME NEW s \in Seq(Lines), NEW t \in Seq(Lines)
    PROVE  /\ s \o t \in Seq(Lines) /\ Len(s \o t) = Len(s) + Len(t)
           /\ \A i \in 1 .. Len(s) : (s \o t)[i] = s[i]
           /\ \A i \in 1 .. Len(t) : (s \o t)[Len(s) + i] = t[i]
           /\ Len(s) \in Nat /\ Len(t) \in Nat
  OBVIOUS

\* The lines of one more agent.
Follows(out, lines, a, mark) ==
    /\ Len(out) = Len(lines) + 5 + Len(a.assets) + 1
    /\ \A j \in 1 .. Len(lines) : out[j] = lines[j]
    /\ \A k \in 1 .. 5 : out[Len(lines) + k] = a.fields[k]
    /\ \A k \in 1 .. Len(a.assets) : out[Len(lines) + 5 + k] = a.assets[k]
    /\ out[Len(out)] = mark

LEMMA OneMore ==
    ASSUME NEW lines \in Seq(Lines), NEW a \in AgentRecord, NEW mark \in Lines,
           NEW out, out = Append(lines \o a.fields \o a.assets, mark)
    PROVE  Follows(out, lines, a, mark)
<1> DEFINE f == a.fields
           s == a.assets
           t == lines \o f
           u == t \o s
<1>1. f \in Seq(Lines) /\ Len(f) = 5 /\ s \in Seq(Lines)
  <2>1. f \in [1 .. 5 -> Lines] /\ s \in Seq(Lines)
    BY DEF AgentRecord
  <2> HIDE DEF f, s
  <2> QED
    BY <2>1, FiveLines
<1> HIDE DEF f, s
<1>2. /\ t \in Seq(Lines) /\ Len(t) = Len(lines) + 5
      /\ \A j \in 1 .. Len(lines) : t[j] = lines[j]
      /\ \A k \in 1 .. 5 : t[Len(lines) + k] = f[k]
  <2>1. /\ t \in Seq(Lines) /\ Len(t) = Len(lines) + Len(f)
        /\ \A j \in 1 .. Len(lines) : t[j] = lines[j]
        /\ \A k \in 1 .. Len(f) : t[Len(lines) + k] = f[k]
    BY <1>1, Joined
  <2> HIDE DEF t
  <2> QED
    BY <1>1, <2>1
<1> HIDE DEF t
<1>3. /\ u \in Seq(Lines) /\ Len(u) = Len(t) + Len(s)
      /\ \A j \in 1 .. Len(t) : u[j] = t[j]
      /\ \A k \in 1 .. Len(s) : u[Len(t) + k] = s[k]
  BY <1>1, <1>2, Joined
<1>4. out = Append(u, mark)
  BY DEF u, t, f, s
<1> HIDE DEF u
<1>5. /\ out \in Seq(Lines) /\ Len(out) = Len(u) + 1
      /\ \A j \in 1 .. Len(u) : out[j] = u[j]
      /\ out[Len(u) + 1] = mark
  BY <1>3, <1>4
<1>6. Len(lines) \in Nat /\ Len(t) \in Nat /\ Len(u) \in Nat /\ Len(s) \in Nat
  BY <1>1, <1>2, <1>3
<1>7. ASSUME NEW j \in 1 .. Len(lines) PROVE out[j] = lines[j]
  <2>1. j \in 1 .. Len(t) /\ j \in 1 .. Len(u)
    BY <1>2, <1>3, <1>6
  <2> QED
    BY <1>2, <1>3, <1>5, <2>1
<1>8. ASSUME NEW k \in 1 .. 5 PROVE out[Len(lines) + k] = f[k]
  <2>1. Len(lines) + k \in 1 .. Len(t) /\ Len(lines) + k \in 1 .. Len(u)
    BY <1>2, <1>3, <1>6
  <2> QED
    BY <1>2, <1>3, <1>5, <2>1
<1>9. ASSUME NEW k \in 1 .. Len(s) PROVE out[Len(lines) + 5 + k] = s[k]
  <2>1. Len(t) + k \in 1 .. Len(u) /\ Len(lines) + 5 + k = Len(t) + k
    BY <1>2, <1>3, <1>6
  <2> QED
    BY <1>3, <1>5, <2>1
<1> QED
  BY <1>2, <1>3, <1>5, <1>6, <1>7, <1>8, <1>9 DEF f, s, Follows

LEMMA OneMoreAt ==
    ASSUME NEW lines, NEW agents \in Seq(AgentRecord), NEW mark,
           NEW n \in Nat, n + 1 <= Len(agents),
           NEW starts, Written(lines, agents, n, starts, AgentEnd),
           NEW a, a = agents[n + 1], Len(a.assets) \in Nat, Len(lines) \in Nat,
           NEW out, Follows(out, lines, a, mark)
    PROVE  \E more : Written(out, agents, n + 1, more, mark)
<1> DEFINE more == [i \in 1 .. n + 2 |-> IF i = n + 2 THEN Len(out) ELSE starts[i]]
<1>4. Len(lines) \in Nat /\ Len(out) \in Nat /\ Len(a.assets) \in Nat /\ Len(lines) <= Len(out)
  <2>1. Len(out) = Len(lines) + 5 + Len(a.assets) + 1
    BY DEF Follows
  <2>2. ASSUME NEW x \in Nat, NEW y \in Nat, NEW z, z = x + 5 + y + 1
        PROVE  z \in Nat /\ x <= z
    BY <2>2
  <2> QED
    BY <2>1, <2>2
<1>5. /\ starts \in [1 .. n + 1 -> 0 .. Len(lines)]
      /\ starts[1] = 0 /\ starts[n + 1] = Len(lines)
  BY DEF Written
<1>6. ASSUME NEW i \in 1 .. n + 1
      PROVE  more[i] = starts[i] /\ starts[i] \in 0 .. Len(lines)
  <2>1. i \in 1 .. n + 2 /\ i # n + 2
    OBVIOUS
  <2> QED
    BY <1>5, <2>1
<1>7. more[n + 2] = Len(out) /\ more[1] = 0 /\ more[n + 1] = Len(lines)
  <2>1. n + 2 \in 1 .. n + 2 /\ 1 \in 1 .. n + 1 /\ n + 1 \in 1 .. n + 1
    OBVIOUS
  <2>2. more[n + 2] = Len(out)
    BY <2>1
  <2> QED
    BY <1>5, <1>6, <2>1, <2>2
<1>8. more \in [1 .. n + 2 -> 0 .. Len(out)]
  <2>1. ASSUME NEW i \in 1 .. n + 2
        PROVE  (IF i = n + 2 THEN Len(out) ELSE starts[i]) \in 0 .. Len(out)
    <3>1. CASE i = n + 2
      BY <1>4, <3>1
    <3>2. CASE i # n + 2
      <4>1. i \in 1 .. n + 1
        BY <3>2
      <4>2. starts[i] \in 0 .. Len(lines)
        BY <1>5, <4>1
      <4> QED
        BY <1>4, <3>2, <4>2
    <3> QED
      BY <3>1, <3>2
  <2> QED
    BY <2>1
<1> HIDE DEF more
<1>9. ASSUME NEW i \in 1 .. n
      PROVE  /\ more[i + 1] = more[i] + 5 + Len(agents[i].assets) + 1
             /\ \A k \in 1 .. 5 : out[more[i] + k] = agents[i].fields[k]
             /\ \A k \in 1 .. Len(agents[i].assets) : out[more[i] + 5 + k] = agents[i].assets[k]
             /\ out[more[i + 1]] = AgentEnd
  <2>1. /\ starts[i + 1] = starts[i] + 5 + Len(agents[i].assets) + 1
        /\ \A k \in 1 .. 5 : lines[starts[i] + k] = agents[i].fields[k]
        /\ \A k \in 1 .. Len(agents[i].assets) : lines[starts[i] + 5 + k] = agents[i].assets[k]
        /\ lines[starts[i + 1]] = AgentEnd
    BY DEF Written
  <2>2. i \in 1 .. n + 1 /\ i + 1 \in 1 .. n + 1
    OBVIOUS
  <2>3. more[i] = starts[i] /\ more[i + 1] = starts[i + 1]
    BY <1>6, <2>2
  <2>4. starts[i] \in 0 .. Len(lines) /\ starts[i + 1] \in 0 .. Len(lines)
    BY <1>6, <2>2
  <2>5. Len(agents[i].assets) \in Nat
    <3>1. agents[i] \in AgentRecord
      OBVIOUS
    <3> QED
      BY <3>1 DEF AgentRecord
  <2>6. /\ \A k \in 1 .. 5 : starts[i] + k \in 1 .. Len(lines)
        /\ \A k \in 1 .. Len(agents[i].assets) : starts[i] + 5 + k \in 1 .. Len(lines)
        /\ starts[i + 1] \in 1 .. Len(lines)
    <3> DEFINE x == starts[i]
               y == starts[i + 1]
               m == Len(agents[i].assets)
               l == Len(lines)
    <3>1. x \in 0 .. l /\ y \in 0 .. l /\ m \in Nat /\ l \in Nat /\ y = x + 5 + m + 1
      BY <1>4, <2>1, <2>4, <2>5
    <3> HIDE DEF x, y, m, l
    <3>2. /\ \A k \in 1 .. 5 : x + k \in 1 .. l
          /\ \A k \in 1 .. m : x + 5 + k \in 1 .. l
          /\ y \in 1 .. l
      BY <3>1
    <3> QED
      BY <3>2 DEF x, y, m, l
  <2>7. \A j \in 1 .. Len(lines) : out[j] = lines[j]
    BY DEF Follows
  <2>8. \A k \in 1 .. 5 : out[more[i] + k] = agents[i].fields[k]
    BY <2>1, <2>3, <2>6, <2>7
  <2>9. ASSUME NEW k \in 1 .. Len(agents[i].assets)
        PROVE  out[more[i] + 5 + k] = agents[i].assets[k]
    <3>1. starts[i] + 5 + k \in 1 .. Len(lines)
      BY <2>6
    <3>2. out[starts[i] + 5 + k] = lines[starts[i] + 5 + k]
      BY <2>7, <3>1
    <3>3. lines[starts[i] + 5 + k] = agents[i].assets[k]
      BY <2>1
    <3> QED
      BY <2>3, <3>2, <3>3
  <2>10. out[more[i + 1]] = AgentEnd
    <3>1. out[starts[i + 1]] = lines[starts[i + 1]]
      BY <2>6, <2>7
    <3> QED
      BY <2>1, <2>3, <3>1
  <2> QED
    BY <2>1, <2>3, <2>8, <2>9, <2>10
<1>10. /\ more[n + 2] = more[n + 1] + 5 + Len(a.assets) + 1
       /\ \A k \in 1 .. 5 : out[more[n + 1] + k] = a.fields[k]
       /\ \A k \in 1 .. Len(a.assets) : out[more[n + 1] + 5 + k] = a.assets[k]
       /\ out[more[n + 2]] = mark
  BY <1>7 DEF Follows
<1>11. ASSUME NEW i \in 1 .. n + 1
       PROVE  /\ more[i + 1] = more[i] + 5 + Len(agents[i].assets) + 1
              /\ \A k \in 1 .. 5 : out[more[i] + k] = agents[i].fields[k]
              /\ \A k \in 1 .. Len(agents[i].assets) : out[more[i] + 5 + k] = agents[i].assets[k]
              /\ out[more[i + 1]] = IF i = n + 1 THEN mark ELSE AgentEnd
  <2>1. CASE i = n + 1
    <3>1. i + 1 = n + 2
      BY <2>1
    <3> QED
      BY <1>10, <2>1, <3>1
  <2>2. CASE i # n + 1
    <3>1. i \in 1 .. n
      BY <2>2
    <3> QED
      BY <1>9, <2>2, <3>1
  <2> QED
    BY <2>1, <2>2
<1>12. (n + 1) + 1 = n + 2
  OBVIOUS
<1>13. Written(out, agents, n + 1, more, mark)
  BY <1>7, <1>8, <1>11, <1>12 DEF Written
<1> QED
  BY <1>13

LEMMA OneMoreWritten ==
    ASSUME NEW lines \in Seq(Lines), NEW agents \in Seq(AgentRecord), NEW mark \in Lines,
           NEW n \in Nat, n + 1 <= Len(agents),
           NEW starts, Written(lines, agents, n, starts, AgentEnd),
           NEW out,
           out = Append(lines \o agents[n + 1].fields \o agents[n + 1].assets, mark)
    PROVE  \E more : Written(out, agents, n + 1, more, mark)
<1> DEFINE a == agents[n + 1]
<1>1. a \in AgentRecord /\ out = Append(lines \o a.fields \o a.assets, mark)
  OBVIOUS
<1> HIDE DEF a
<1>2. Follows(out, lines, a, mark)
  BY <1>1, OneMore
<1>3. Len(a.assets) \in Nat /\ Len(lines) \in Nat
  BY <1>1 DEF AgentRecord
<1> QED
  BY <1>2, <1>3, OneMoreAt DEF a

LEMMA NothingWritten ==
    ASSUME NEW agents, NEW mark
    PROVE  \E starts : Written(<<>>, agents, 0, starts, mark)
<1>1. Written(<<>>, agents, 0, [i \in 1 .. 1 |-> 0], mark)
  BY DEF Written
<1> QED
  BY <1>1

-----------------------------------------------------------------------------
(***************************************************************************)
(* The dump.                                                               *)
(***************************************************************************)
LEMMA DumpNext ==
    ASSUME TypeOK, DumpPlace, DumpInv, [Next]_vars
    PROVE  DumpInv'
<1> USE DEF DumpInv
<1>1. CASE pc' # "dump"
  BY <1>1
<1>2. CASE UNCHANGED vars
  BY <1>2 DEF vars
<1>3. CASE DumpEncryptedFile
  <2>1. file' = <<>> /\ agentPosition' = 0 /\ dumped' = <<>> /\ got' = <<>>
    BY <1>3 DEF DumpEncryptedFile
  <2> QED
    BY <2>1, NothingWritten
<1>4. CASE DumpEncryptedAgent
  <2>1. /\ pc = "dump" /\ agentPosition + 1 < Len(list) /\ agentPosition \in Nat
        /\ file' = Append(WithAgent, AgentEnd) /\ agentPosition' = agentPosition + 1
        /\ UNCHANGED <<dumped, got, list>>
    BY <1>4 DEF DumpEncryptedAgent, InMemory, Reading, TypeOK
  <2>2. PICK starts : Written(file, list, agentPosition, starts, AgentEnd)
    BY <2>1
  <2>3. \E more : Written(file', list, agentPosition + 1, more, AgentEnd)
    <3>1. file \in Seq(Lines) /\ list \in Seq(AgentRecord) /\ agentPosition + 1 <= Len(list)
      BY <2>1 DEF TypeOK
    <3>2. file' = Append(file \o list[agentPosition + 1].fields \o list[agentPosition + 1].assets,
                        AgentEnd)
      BY <2>1 DEF WithAgent
    <3> QED
      BY <2>1, <2>2, <3>1, <3>2, Marks, OneMoreWritten
  <2> QED
    BY <2>1, <2>3
<1>5. CASE PrintAgents \/ Kill \/ LoadPastEnd \/ Start \/ DumpEnds \/ DumpStops
  BY <1>1, <1>5 DEF PrintAgents, Kill, LoadPastEnd, Start, Dies, DumpEnds, DumpStops
<1>6. CASE AddsAgent \/ AddsAssets
  BY <1>1, <1>6 DEF AddsAgent, AddAgent, AddAgentToList, AddsAssets, AddAssetsToAgent, Dies
<1>7. CASE LoadEncryptedFile \/ LoadNothing
  BY <1>1, <1>7 DEF LoadEncryptedFile, LoadNothing, AddAgentToList
<1>8. CASE LoadField \/ LoadAsset
  BY <1>1, <1>8 DEF LoadField, LoadAsset, AddAgentToList
<1> QED
  BY <1>2, <1>3, <1>4, <1>5, <1>6, <1>7, <1>8 DEF Next

-----------------------------------------------------------------------------
(***************************************************************************)
(* The load of a whole dump.                                               *)
(***************************************************************************)

\* Where the load stands, in numbers.
LEMMA Place ==
    ASSUME TypeOK, NEW starts, Written(file, dumped, Len(dumped), starts, FileEnd), LoadsAt(starts)
    PROVE  /\ Len(got) + 1 \in 1 .. Len(dumped) /\ dumped[Len(got) + 1] \in AgentRecord
           /\ Len(agent.fields) \in 0 .. 5 /\ Len(agent.assets) \in Nat
           /\ starts[Len(got) + 1] \in Nat /\ starts[Len(got) + 2] \in 0 .. Len(file)
           /\ starts[Len(got) + 2] = starts[Len(got) + 1] + 6 + Len(dumped[Len(got) + 1].assets)
           /\ Len(dumped[Len(got) + 1].assets) \in Nat /\ Len(got) \in Nat
           /\ Len(agent.assets) <= Len(dumped[Len(got) + 1].assets)
           /\ Len(input) = Len(file) - (starts[Len(got) + 1] + Len(agent.fields) + Len(agent.assets))
           /\ Len(file) \in Nat /\ Len(input) \in Nat \ {0} /\ Len(dumped) \in Nat
<1> DEFINE i == Len(got) + 1
<1>1. i \in 1 .. Len(dumped) /\ Len(got) \in Nat /\ Len(dumped) \in Nat
  BY DEF LoadsAt, TypeOK
<1>2. i \in 1 .. Len(dumped) + 1 /\ i + 1 \in 1 .. Len(dumped) + 1 /\ i + 1 = Len(got) + 2
  BY <1>1
<1>3. dumped[i] \in AgentRecord
  BY <1>1 DEF TypeOK
<1>4. Len(dumped[i].assets) \in Nat
  BY <1>3 DEF AgentRecord
<1>5. Len(agent.fields) \in 0 .. 5 /\ Len(agent.assets) \in Nat /\ Len(file) \in Nat /\ Len(input) \in Nat
  <2>1. /\ agent.fields \in Seq(Lines) /\ agent.assets \in Seq(Lines) /\ Len(agent.fields) <= 5
        /\ file \in Seq(Lines) /\ input \in Seq(Lines)
    BY DEF TypeOK
  <2>2. Len(agent.fields) \in Nat /\ Len(agent.assets) \in Nat
    BY <2>1
  <2>3. Len(file) \in Nat /\ Len(input) \in Nat
    BY <2>1
  <2>4. Len(agent.fields) \in 0 .. 5
    <3>1. Len(agent.fields) <= 5
      BY <2>1
    <3>2. \A x \in Nat : x <= 5 => x \in 0 .. 5
      OBVIOUS
    <3> QED
      BY <2>2, <3>1, <3>2, Zenon
  <2> QED
    BY <2>2, <2>3, <2>4
<1>6. starts[i] \in 0 .. Len(file) /\ starts[i + 1] \in 0 .. Len(file)
  <2>1. starts \in [1 .. Len(dumped) + 1 -> 0 .. Len(file)]
    BY DEF Written
  <2> QED
    BY <1>2, <2>1
<1>7. starts[i + 1] = starts[i] + 5 + Len(dumped[i].assets) + 1
  BY <1>1 DEF Written
<1>8. /\ Len(agent.assets) <= Len(dumped[i].assets)
      /\ Len(input) = Len(file) - (starts[i] + Len(agent.fields) + Len(agent.assets))
  BY DEF LoadsAt
<1> HIDE DEF i
<1>9. starts[i + 1] = starts[i] + 6 + Len(dumped[i].assets) /\ Len(input) # 0
  <2>1. ASSUME NEW s \in Nat, NEW t \in Nat, NEW l \in Nat, NEW f \in 0 .. 5, NEW m \in Nat,
               NEW h \in Nat, s <= l, t <= l, t = s + 5 + m + 1, h <= m
        PROVE  t = s + 6 + m /\ l - (s + f + h) # 0
    BY <2>1
  <2>2. starts[i] \in Nat /\ starts[i + 1] \in Nat /\ starts[i] <= Len(file) /\ starts[i + 1] <= Len(file)
    BY <1>5, <1>6
  <2>3. /\ starts[i + 1] = starts[i] + 6 + Len(dumped[i].assets)
        /\ Len(file) - (starts[i] + Len(agent.fields) + Len(agent.assets)) # 0
    <3> DEFINE s == starts[i]
               t == starts[i + 1]
               l == Len(file)
               f == Len(agent.fields)
               m == Len(dumped[i].assets)
               h == Len(agent.assets)
    <3>1. /\ s \in Nat /\ t \in Nat /\ l \in Nat /\ f \in 0 .. 5 /\ m \in Nat /\ h \in Nat
          /\ s <= l /\ t <= l /\ t = s + 5 + m + 1 /\ h <= m
      BY <1>4, <1>5, <1>7, <1>8, <2>2
    <3> HIDE DEF s, t, l, f, m, h
    <3>2. t = s + 6 + m /\ l - (s + f + h) # 0
      BY <2>1, <3>1
    <3> QED
      BY <3>2 DEF s, t, l, f, m, h
  <2> QED
    BY <1>8, <2>3
<1>10. starts[i] \in Nat
  BY <1>5, <1>6
<1> QED
  BY <1>1, <1>2, <1>3, <1>4, <1>5, <1>6, <1>8, <1>9, <1>10 DEF i

LEMMA FirstLine ==
    ASSUME input \in Seq(Lines), Len(input) # 0
    PROVE  /\ input # <<>> /\ Head(input) = input[1] /\ <<>> \o Tail(input) = Tail(input)
           /\ Len(Tail(input)) = Len(input) - 1
           /\ \A j \in 1 .. Len(input) - 1 : Tail(input)[j] = input[j + 1]
<1>1. input # <<>>
  OBVIOUS
<1>2. Tail(input) \in Seq(Lines) /\ Head(input) = input[1] /\ Len(Tail(input)) = Len(input) - 1
  BY <1>1, HeadTailProperties
<1>3. \A j \in 1 .. Len(input) - 1 : Tail(input)[j] = input[j + 1]
  BY <1>1, HeadTailProperties
<1>4. <<>> \o Tail(input) = Tail(input)
  BY <1>2, ConcatEmptySeq
<1> QED
  BY <1>1, <1>2, <1>3, <1>4

LEMMA FieldReadBack ==
    ASSUME TypeOK, SettledInv, WholeDump, LoadField,
           NEW starts, Written(file, dumped, Len(dumped), starts, FileEnd), LoadsAt(starts)
    PROVE  LoadsAt(starts)'
<1> DEFINE i == Len(got) + 1
           a == dumped[i]
           n == Len(agent.fields)
           k == starts[i] + n
<1>1. /\ i \in 1 .. Len(dumped) /\ a \in AgentRecord /\ n \in 0 .. 4 /\ starts[i] \in Nat
      /\ Len(agent.assets) = 0 /\ Len(input) = Len(file) - k /\ Len(input) \in Nat \ {0}
      /\ Len(file) \in Nat /\ Len(a.assets) \in Nat
  <2>1. n + 1 \in 1 .. 5
    BY FieldRead
  <2>2. Len(agent.assets) > 0 => n = 5
    BY DEF LoadsAt
  <2>3. /\ i \in 1 .. Len(dumped) /\ a \in AgentRecord /\ n \in 0 .. 5 /\ starts[i] \in Nat
        /\ Len(agent.assets) \in Nat /\ Len(input) = Len(file) - (starts[i] + n + Len(agent.assets))
        /\ Len(input) \in Nat \ {0} /\ Len(file) \in Nat /\ Len(a.assets) \in Nat
    BY Place
  <2> HIDE DEF i, a, n
  <2>4. n \in 0 .. 4 /\ Len(agent.assets) = 0
    BY <2>1, <2>2, <2>3
  <2> QED
    BY <2>3, <2>4
<1>2. /\ \A j \in 1 .. Len(got) : got[j] = dumped[j]
      /\ \A j \in 1 .. n : agent.fields[j] = a.fields[j]
      /\ \A j \in 1 .. Len(input) : input[j] = file[k + j]
  <2>1. \A j \in 1 .. Len(input) : input[j] = file[starts[i] + n + Len(agent.assets) + j]
    BY DEF LoadsAt
  <2>2. starts[i] + n + Len(agent.assets) = k
    <3> HIDE DEF i, n
    <3> QED
      BY <1>1
  <2> QED
    BY <2>1, <2>2 DEF LoadsAt
<1>3. n + 1 \in 1 .. 5
  <2> HIDE DEF n
  <2> QED
    BY <1>1
<1>4. /\ input[1] = a.fields[n + 1] /\ a.fields[n + 1] \in Lines
      /\ a.fields[n + 1].len + 1 < FieldBuff[n + 1]
      /\ Converted(a.fields[n + 1], n + 1) = a.fields[n + 1]
  <2>1. \A j \in 1 .. 5 : file[starts[i] + j] = a.fields[j]
    BY <1>1 DEF Written
  <2>2. a.fields \in [1 .. 5 -> Lines]
    BY <1>1 DEF AgentRecord
  <2>3. Len(a.fields) = 5
    BY <2>2, FiveLines
  <2>4. Fits(a) /\ Settled(a)
    BY <1>1 DEF WholeDump, SettledInv, AllSettled, TypeOK
  <2> HIDE DEF i, a, n
  <2>5. input[1] = file[k + 1] /\ k + 1 = starts[i] + (n + 1)
    BY <1>1, <1>2
  <2> QED
    BY <1>3, <2>1, <2>2, <2>3, <2>4, <2>5 DEF Fits, Settled
<1>5. input \in Seq(Lines)
  BY DEF TypeOK
<1>6. /\ Head(input) = a.fields[n + 1] /\ <<>> \o Tail(input) = Tail(input)
      /\ Len(Tail(input)) = Len(input) - 1
      /\ \A j \in 1 .. Len(input) - 1 : Tail(input)[j] = input[j + 1]
  BY <1>1, <1>4, <1>5, FirstLine
<1>7. /\ Taken(a.fields[n + 1], FieldBuff[n + 1]) = a.fields[n + 1]
      /\ Left(a.fields[n + 1], FieldBuff[n + 1]) = <<>>
  BY <1>3, <1>4, Buffers, LineRead
<1>8. /\ agent' = [fields |-> Append(agent.fields, a.fields[n + 1]), assets |-> agent.assets]
      /\ input' = Tail(input) /\ UNCHANGED <<got, file, dumped>>
  <2>1. /\ agent' = [fields |-> Append(agent.fields,
                         Converted(Taken(Head(input), FieldBuff[n + 1]), n + 1)),
                     assets |-> agent.assets]
        /\ input' = Left(Head(input), FieldBuff[n + 1]) \o Tail(input)
        /\ UNCHANGED <<got, file, dumped>>
    BY FieldRead
  <2> HIDE DEF n, a
  <2> QED
    BY <1>4, <1>6, <1>7, <2>1
<1>9. /\ Len(agent'.fields) = n + 1 /\ agent'.assets = agent.assets
      /\ \A j \in 1 .. n + 1 : agent'.fields[j] = a.fields[j]
  <2>1. agent.fields \in Seq(Lines)
    BY DEF TypeOK
  <2> HIDE DEF a
  <2>2. Append(agent.fields, a.fields[n + 1]) \in Seq(Lines)
    BY <1>4, <2>1
  <2>3. ASSUME NEW j \in 1 .. n + 1 PROVE Append(agent.fields, a.fields[n + 1])[j] = a.fields[j]
    BY <1>2, <1>4, <2>1
  <2> QED
    BY <1>4, <1>8, <2>1, <2>2, <2>3
<1>10. /\ Len(input') = Len(file) - (k + 1)
       /\ \A j \in 1 .. Len(input') : input'[j] = file[k + 1 + j]
  <2>1. Len(input') = Len(input) - 1 /\ k \in Nat
    <3> HIDE DEF i, n, a
    <3>1. k \in Nat
      BY <1>1
    <3>2. Len(input') = Len(input) - 1
      BY <1>6, <1>8
    <3> QED
      BY <3>1, <3>2
  <2>2. ASSUME NEW j \in 1 .. Len(input') PROVE input'[j] = file[k + 1 + j]
    <3>1. j \in 1 .. Len(input) - 1 /\ j + 1 \in 1 .. Len(input)
      BY <1>1, <2>1
    <3>2. input'[j] = input[j + 1] /\ input[j + 1] = file[k + (j + 1)]
      BY <1>2, <1>6, <1>8, <3>1
    <3>3. k + (j + 1) = k + 1 + j
      BY <2>1
    <3> QED
      BY <3>2, <3>3
  <2> QED
    BY <1>1, <2>1, <2>2
<1> HIDE DEF a
<1>11. /\ Len(got') + 1 = i /\ dumped'[i] = a /\ file' = file
       /\ starts[i] + Len(agent'.fields) + Len(agent'.assets) = k + 1
  BY <1>1, <1>8, <1>9 DEF a
<1>12. i \in 1 .. Len(dumped') /\ \A j \in 1 .. Len(got') : got'[j] = dumped'[j]
  BY <1>1, <1>2, <1>8
<1>13. Len(agent'.assets) = 0 /\ Len(agent'.assets) <= Len(a.assets)
  BY <1>1, <1>9
<1> HIDE DEF i, n, k
<1> QED
  BY <1>9, <1>10, <1>11, <1>12, <1>13 DEF LoadsAt

LEMMA SameSeq ==
    ASSUME NEW S, NEW s \in Seq(S), NEW t \in Seq(S), Len(s) = Len(t),
           \A i \in 1 .. Len(s) : s[i] = t[i]
    PROVE  s = t
<1>1. s = [i \in 1 .. Len(s) |-> s[i]] /\ t = [i \in 1 .. Len(t) |-> t[i]]
  BY LenProperties
<1>2. [i \in 1 .. Len(s) |-> s[i]] = [i \in 1 .. Len(t) |-> t[i]]
  OBVIOUS
<1> QED
  BY <1>1, <1>2

\* An agent that has been read to its mark is the one that was dumped.
LEMMA AgentReadBack ==
    ASSUME agent \in Unfinished, NEW a \in AgentRecord, Len(agent.fields) = 5,
           Len(agent.assets) = Len(a.assets),
           \A j \in 1 .. Len(agent.fields) : agent.fields[j] = a.fields[j],
           \A j \in 1 .. Len(agent.assets) : agent.assets[j] = a.assets[j]
    PROVE  agent = a
<1>1. a.fields \in Seq(Lines) /\ Len(a.fields) = 5 /\ a.assets \in Seq(Lines)
  BY FiveLines DEF AgentRecord
<1>2. agent.fields \in Seq(Lines) /\ agent.assets \in Seq(Lines)
  BY DEF Unfinished
<1>3. agent.fields = a.fields
  <2>1. Len(agent.fields) = Len(a.fields)
    BY <1>1
  <2> QED
    BY <1>1, <1>2, <2>1, SameSeq
<1>4. agent.assets = a.assets
  BY <1>1, <1>2, SameSeq
<1>5. agent = [fields |-> agent.fields, assets |-> agent.assets]
  BY DEF Unfinished
<1>6. a = [fields |-> a.fields, assets |-> a.assets]
  BY DEF AgentRecord
<1> QED
  BY <1>3, <1>4, <1>5, <1>6

\* s lines come before an agent with m assets, of which h are read; k lines are read.
LEMMA Lengths ==
    ASSUME NEW s \in Nat, NEW m \in Nat, NEW h \in Nat, h <= m, NEW k, k = s + 5 + h
    PROVE  /\ k \in Nat
           /\ (h < m => h + 1 \in 1 .. m /\ k + 1 = s + 5 + (h + 1))
           /\ (~(h < m) => h = m /\ k + 1 = s + 6 + m)
  OBVIOUS

LEMMA AssetReadBack ==
    ASSUME TypeOK, SettledInv, WholeDump, LoadAsset,
           NEW starts, Written(file, dumped, Len(dumped), starts, FileEnd), LoadsAt(starts)
    PROVE  \/ pc' = "load" /\ LoadsAt(starts)'
           \/ pc' \in {"menu", "dead"} /\ got' = dumped
<1> DEFINE i == Len(got) + 1
           a == dumped[i]
           h == Len(agent.assets)
           k == starts[i] + 5 + h
           x == Taken(Head(input), AssetBuff)
<1>1. Len(agent.fields) = 5 /\ pc = "load" /\ UNCHANGED <<file, dumped>>
  BY AssetRead
<1>2. /\ i \in 1 .. Len(dumped) /\ a \in AgentRecord /\ h \in Nat /\ starts[i] \in Nat
      /\ starts[i + 1] \in 0 .. Len(file) /\ starts[i + 1] = starts[i] + 6 + Len(a.assets)
      /\ Len(a.assets) \in Nat /\ h <= Len(a.assets) /\ Len(got) \in Nat /\ Len(dumped) \in Nat
      /\ Len(input) = Len(file) - k /\ Len(input) \in Nat \ {0} /\ Len(file) \in Nat
  <2>1. i + 1 = Len(got) + 2
    <3>1. Len(got) \in Nat
      BY Place
    <3> QED
      BY <3>1
  <2> QED
    BY <1>1, <2>1, Place
<1>3. /\ \A j \in 1 .. Len(got) : got[j] = dumped[j]
      /\ \A j \in 1 .. Len(agent.fields) : agent.fields[j] = a.fields[j]
      /\ \A j \in 1 .. h : agent.assets[j] = a.assets[j]
      /\ \A j \in 1 .. Len(input) : input[j] = file[k + j]
  BY <1>1 DEF LoadsAt
<1>4. input \in Seq(Lines) /\ got \in Seq(AgentRecord) /\ agent \in Unfinished /\ dumped \in Seq(AgentRecord)
  BY DEF TypeOK, Unfinished
<1>5. /\ Head(input) = input[1] /\ <<>> \o Tail(input) = Tail(input)
      /\ Len(Tail(input)) = Len(input) - 1
      /\ \A j \in 1 .. Len(input) - 1 : Tail(input)[j] = input[j + 1]
  BY <1>2, <1>4, FirstLine
<1>6. /\ k \in Nat
       /\ (h < Len(a.assets) =>
              h + 1 \in 1 .. Len(a.assets) /\ k + 1 = starts[i] + 5 + (h + 1))
       /\ (~(h < Len(a.assets)) => h = Len(a.assets) /\ k + 1 = starts[i] + 6 + Len(a.assets))
  <2>1. starts[i] \in Nat /\ Len(a.assets) \in Nat /\ h \in Nat /\ h <= Len(a.assets)
    BY <1>2
  <2> DEFINE s == starts[i]
             m == Len(a.assets)
  <2>2. s \in Nat /\ m \in Nat /\ h \in Nat /\ h <= m /\ k = s + 5 + h
    BY <2>1
  <2> HIDE DEF s, m, h, k
  <2>3. /\ k \in Nat
        /\ (h < m => h + 1 \in 1 .. m /\ k + 1 = s + 5 + (h + 1))
        /\ (~(h < m) => h = m /\ k + 1 = s + 6 + m)
    BY <2>2, Lengths
  <2> QED
    BY <2>3 DEF s, m
<1>7. Head(input) = file[k + 1]
  <2>1. 1 \in 1 .. Len(input)
    BY <1>2
  <2> QED
    BY <1>3, <1>5, <2>1
<1>8. ASSUME Head(input).len + 1 < AssetBuff, Head(input) \in Lines
      PROVE  x = Head(input) /\ input' = Tail(input)
  <2>1. AssetBuff \in Nat \ {0}
    BY DEF AssetBuff
  <2>2. x = Head(input) /\ Left(Head(input), AssetBuff) = <<>>
    BY <1>8, <2>1, LineRead
  <2>3. input' = Left(Head(input), AssetBuff) \o Tail(input)
    BY AssetRead
  <2> QED
    BY <1>5, <2>2, <2>3
<1>9. ASSUME input' = Tail(input)
      PROVE  /\ Len(input') = Len(file) - (k + 1)
             /\ \A j \in 1 .. Len(input') : input'[j] = file[k + 1 + j]
  <2>1. k \in Nat
    BY <1>6
  <2> HIDE DEF k, a
  <2>2. Len(input') = Len(input) - 1
    BY <1>5, <1>9
  <2>3. ASSUME NEW j \in 1 .. Len(input') PROVE input'[j] = file[k + 1 + j]
    <3>1. j \in 1 .. Len(input) - 1 /\ j + 1 \in 1 .. Len(input)
      BY <1>2, <2>2
    <3>2. input'[j] = input[j + 1] /\ input[j + 1] = file[k + (j + 1)]
      BY <1>3, <1>5, <1>9, <3>1
    <3>3. k + (j + 1) = k + 1 + j
      BY <2>1
    <3> QED
      BY <3>2, <3>3
  <2> QED
    BY <1>2, <2>1, <2>2, <2>3
<1>10. CASE h < Len(a.assets)
  <2>1. h + 1 \in 1 .. Len(a.assets) /\ k + 1 = starts[i] + 5 + (h + 1)
    BY <1>10, <1>6
  <2>2. Head(input) = a.assets[h + 1]
    <3>1. \A j \in 1 .. Len(a.assets) : file[starts[i] + 5 + j] = a.assets[j]
      BY <1>2 DEF Written
    <3> HIDE DEF i, h, a, k
    <3> QED
      BY <1>7, <2>1, <3>1
  <2>3. a.assets \in Seq(Lines) /\ Fits(a) /\ Settled(a)
    <3>1. a.assets \in Seq(Lines)
      BY <1>2 DEF AgentRecord
    <3> QED
      BY <1>2, <1>4, <3>1 DEF WholeDump, SettledInv, AllSettled
  <2> HIDE DEF i, a, h
  <2>4. /\ a.assets[h + 1] \in Lines /\ a.assets[h + 1].len + 1 < AssetBuff
        /\ a.assets[h + 1] \notin {AgentEnd, FileEnd}
    BY <2>1, <2>3 DEF Fits, Settled
  <2>5. x = a.assets[h + 1] /\ input' = Tail(input)
    BY <1>8, <2>2, <2>4
  <2>6. /\ agent' = [fields |-> agent.fields, assets |-> Append(agent.assets, a.assets[h + 1])]
        /\ UNCHANGED <<pc, got>>
    BY <2>4, <2>5, AssetRead
  <2>7. /\ Len(agent'.assets) = h + 1 /\ agent'.fields = agent.fields
        /\ \A j \in 1 .. h + 1 : agent'.assets[j] = a.assets[j]
    <3>1. agent.assets \in Seq(Lines) /\ Len(agent.assets) = h
      BY <1>4 DEF Unfinished, h
    <3>2. /\ Len(Append(agent.assets, a.assets[h + 1])) = h + 1
          /\ \A j \in 1 .. h : Append(agent.assets, a.assets[h + 1])[j] = agent.assets[j]
          /\ Append(agent.assets, a.assets[h + 1])[h + 1] = a.assets[h + 1]
      BY <2>4, <3>1
    <3>3. ASSUME NEW j \in 1 .. h + 1 PROVE Append(agent.assets, a.assets[h + 1])[j] = a.assets[j]
      <4>1. j \in 1 .. h \/ j = h + 1
        BY <1>2
      <4> QED
        BY <1>3, <3>2, <4>1
    <3> QED
      BY <2>6, <3>2, <3>3
  <2>8. /\ Len(input') = Len(file) - (k + 1)
        /\ \A j \in 1 .. Len(input') : input'[j] = file[k + 1 + j]
    BY <1>9, <2>5
  <2>9. /\ Len(got') + 1 = i /\ dumped' = dumped /\ dumped[i] = a /\ file' = file
        /\ starts[i] + Len(agent'.fields) + Len(agent'.assets) = k + 1
        /\ h + 1 <= Len(a.assets)
    <3>1. Len(got') + 1 = i /\ dumped[i] = a
      BY <2>6 DEF i, a
    <3>2. starts[i] + 5 + (h + 1) = k + 1
      BY <2>1
    <3>3. h + 1 <= Len(a.assets)
      BY <1>2, <2>1
    <3>4. starts[i] + Len(agent'.fields) + Len(agent'.assets) = starts[i] + 5 + (h + 1)
      BY <1>1, <2>7
    <3> HIDE DEF k
    <3> QED
      BY <1>1, <2>6, <3>1, <3>2, <3>3, <3>4
  <2>10. i \in 1 .. Len(dumped) /\ \A j \in 1 .. Len(got') : got'[j] = dumped[j]
    BY <1>2, <1>3, <2>6
  <2> HIDE DEF k
  <2>11. LoadsAt(starts)'
    BY <1>1, <1>3, <2>7, <2>8, <2>9, <2>10 DEF LoadsAt
  <2> QED
    BY <1>1, <2>6, <2>11
<1>11. CASE ~(h < Len(a.assets))
  <2>1. h = Len(a.assets) /\ k + 1 = starts[i + 1]
    BY <1>2, <1>11, <1>6
  <2>2. agent = a
    BY <1>1, <1>2, <1>3, <1>4, <2>1, AgentReadBack
  <2>3. Head(input) = IF i = Len(dumped) THEN FileEnd ELSE AgentEnd
    <3>1. file[starts[i + 1]] = IF i = Len(dumped) THEN FileEnd ELSE AgentEnd
      BY <1>2 DEF Written
    <3> HIDE DEF i, h, a, k
    <3> QED
      BY <1>7, <2>1, <3>1
  <2>4. x = Head(input) /\ input' = Tail(input)
    <3>1. Head(input) \in Lines /\ Head(input).len + 1 < AssetBuff
      BY <2>3, Marks DEF AssetBuff
    <3> QED
      BY <1>8, <3>1
  <2>5. got' = Append(got, a)
    BY <2>2, <2>3, <2>4, Marks, AssetRead
  <2> HIDE DEF a
  <2>6. Len(got') = i /\ got' \in Seq(AgentRecord)
    BY <1>2, <1>4, <2>5
  <2>7. \A j \in 1 .. Len(got') : got'[j] = dumped[j]
    <3>1. ASSUME NEW j \in 1 .. i PROVE Append(got, a)[j] = dumped[j]
      <4>1. CASE j = i
        BY <1>2, <1>4, <4>1 DEF a
      <4>2. CASE j # i
        <5>1. j \in 1 .. Len(got)
          BY <1>2, <4>2
        <5>2. Append(got, a)[j] = got[j]
          BY <1>2, <1>4, <5>1
        <5> QED
          BY <1>3, <5>1, <5>2
      <4> QED
        BY <4>1, <4>2
    <3> QED
      BY <2>5, <2>6, <3>1
  <2>8. CASE i = Len(dumped)
    <3>1. got' = dumped
      BY <1>4, <2>6, <2>7, <2>8, SameSeq
    <3>2. AddAgentToList(Append(got, agent))
      BY <2>3, <2>4, <2>8, Marks, AssetRead
    <3> QED
      BY <3>1, <3>2 DEF AddAgentToList
  <2>9. CASE i # Len(dumped)
    <3>1. agent' = NewAgent /\ pc' = pc
      BY <2>3, <2>4, <2>9, Marks, AssetRead
    <3>2. /\ Len(input') = Len(file) - (k + 1)
          /\ \A j \in 1 .. Len(input') : input'[j] = file[k + 1 + j]
      BY <1>9, <2>4
    <3>3. Len(agent'.fields) = 0 /\ Len(agent'.assets) = 0
      BY <3>1, NewType
    <3>4. i + 1 \in 1 .. Len(dumped)
      <4>1. i \in 1 .. Len(dumped) /\ Len(dumped) \in Nat
        BY <1>2
      <4> HIDE DEF i
      <4> QED
        BY <2>9, <4>1
    <3>5. Len(dumped[i + 1].assets) \in Nat
      <4>1. dumped[i + 1] \in AgentRecord
        BY <1>4, <3>4
      <4> QED
        BY <4>1 DEF AgentRecord
    <3>6. starts[i + 1] + Len(agent'.fields) + Len(agent'.assets) = k + 1
      BY <1>2, <2>1, <3>3
    <3> HIDE DEF i, k
    <3>7. Len(got') + 1 = i + 1 /\ dumped' = dumped /\ file' = file
      BY <1>1, <2>6
    <3>8. LoadsAt(starts)'
      BY <2>7, <3>2, <3>3, <3>4, <3>5, <3>6, <3>7 DEF LoadsAt
    <3> QED
      BY <1>1, <3>1, <3>8
  <2> QED
    BY <2>8, <2>9
<1> QED
  BY <1>10, <1>11

-----------------------------------------------------------------------------
(***************************************************************************)
(* The invariant of the file and of what a load has read.                  *)
(***************************************************************************)
LEMMA FileSame ==
    ASSUME FileInv, UNCHANGED <<file, dumped>>, pc' # "load"
    PROVE  FileInv'
<1>1. CASE dumped = <<>>
  BY <1>1 DEF FileInv
<1>2. CASE dumped # <<>>
  <2>1. PICK starts : Written(file, dumped, Len(dumped), starts, FileEnd)
    BY <1>2 DEF FileInv
  <2>2. Written(file', dumped', Len(dumped'), starts, FileEnd)
    BY <2>1
  <2> QED
    BY <2>2 DEF FileInv
<1> QED
  BY <1>1, <1>2

\* A dump that ends is of the list.
LEMMA FileDumped ==
    ASSUME TypeOK, DumpInv, DumpEnds
    PROVE  \E starts : Written(file', dumped', Len(dumped'), starts, FileEnd)
<1>1. /\ pc = "dump" /\ agentPosition + 1 = Len(list) /\ agentPosition \in Nat
      /\ file' = Append(WithAgent, FileEnd) /\ dumped' = list
  BY DEF DumpEnds, TypeOK
<1>2. PICK starts : Written(file, list, agentPosition, starts, AgentEnd)
  BY <1>1 DEF DumpInv
<1>3. \E more : Written(file', list, agentPosition + 1, more, FileEnd)
  <2>1. file \in Seq(Lines) /\ list \in Seq(AgentRecord) /\ agentPosition + 1 <= Len(list)
    BY <1>1 DEF TypeOK
  <2>2. file' = Append(file \o list[agentPosition + 1].fields \o list[agentPosition + 1].assets,
                       FileEnd)
    BY <1>1 DEF WithAgent
  <2> QED
    BY <1>1, <1>2, <2>1, <2>2, Marks, OneMoreWritten
<1> QED
  BY <1>1, <1>3

\* A load starts at the first line of the first agent.
LEMMA LoadBegins ==
    ASSUME TypeOK, dumped # <<>>, LoadEncryptedFile,
           NEW starts, Written(file, dumped, Len(dumped), starts, FileEnd)
    PROVE  LoadsAt(starts)'
<1>1. /\ input' = file /\ file' = file /\ dumped' = dumped /\ got' = <<>>
      /\ Len(agent'.fields) = 0 /\ Len(agent'.assets) = 0
  BY NewType DEF LoadEncryptedFile, Files
<1>2. starts[1] = 0
  BY DEF Written
<1>3. dumped \in Seq(AgentRecord) /\ Len(dumped) \in Nat /\ 1 \in 1 .. Len(dumped)
  <2>1. dumped \in Seq(AgentRecord)
    BY DEF TypeOK
  <2> QED
    BY <2>1, EmptySeq
<1>4. Len(dumped[1].assets) \in Nat
  BY <1>3 DEF AgentRecord
<1>5. Len(got') + 1 = 1
  BY <1>1
<1>6. Len(file) \in Nat
  BY DEF TypeOK
<1> QED
  BY <1>1, <1>2, <1>3, <1>4, <1>5, <1>6 DEF LoadsAt

LEMMA FileNext ==
    ASSUME TypeOK, SettledInv, DumpInv, FileInv, [Next]_vars
    PROVE  FileInv'
<1>1. CASE UNCHANGED vars
  BY <1>1 DEF vars, FileInv, LoadsAt, WholeDump, Fits
<1>2. CASE PrintAgents \/ AddsAgent \/ AddsAssets \/ LoadNothing \/ LoadPastEnd \/ Kill \/ Start
  <2>1. UNCHANGED <<file, dumped>> /\ pc' # "load"
    BY <1>2 DEF PrintAgents, AddsAgent, AddAgent, AddAgentToList, AddsAssets, AddAssetsToAgent,
                LoadNothing, LoadPastEnd, Kill, Start, Dies, Files
  <2> QED
    BY <2>1, FileSame
<1>3. CASE DumpEncryptedFile \/ DumpEncryptedAgent \/ DumpStops
  <2>1. dumped' = <<>>
    BY <1>3 DEF DumpEncryptedFile, DumpEncryptedAgent, DumpStops, DumpInv
  <2> QED
    BY <2>1 DEF FileInv
<1>4. CASE DumpEnds
  <2>1. pc' # "load"
    BY <1>4 DEF DumpEnds
  <2> QED
    BY <1>4, <2>1, FileDumped DEF FileInv
<1>5. CASE LoadEncryptedFile \/ LoadField \/ LoadAsset
  <2>1. UNCHANGED <<file, dumped>>
    BY <1>5, FieldRead, AssetRead DEF LoadEncryptedFile, Files
  <2>2. CASE dumped = <<>>
    BY <2>1, <2>2 DEF FileInv
  <2>3. CASE dumped # <<>> /\ pc' # "load"
    BY <2>1, <2>3, FileSame
  <2>4. CASE dumped # <<>> /\ pc' = "load"
    <3>1. PICK starts : /\ Written(file, dumped, Len(dumped), starts, FileEnd)
                        /\ pc = "load" /\ WholeDump => LoadsAt(starts)
      BY <2>4 DEF FileInv
    <3>2. Written(file', dumped', Len(dumped'), starts, FileEnd)
      BY <2>1, <3>1
    <3>3. WholeDump' => WholeDump
      BY <2>1 DEF WholeDump
    <3>4. ASSUME WholeDump PROVE LoadsAt(starts)'
      <4>1. CASE LoadEncryptedFile
        BY <2>4, <3>1, <4>1, LoadBegins
      <4>2. CASE LoadField
        <5>1. LoadsAt(starts)
          BY <3>1, <3>4, <4>2 DEF LoadField
        <5> QED
          BY <3>1, <3>4, <4>2, <5>1, FieldReadBack
      <4>3. CASE LoadAsset
        <5>1. LoadsAt(starts)
          BY <3>1, <3>4, <4>3 DEF LoadAsset
        <5> QED
          BY <2>4, <3>1, <3>4, <4>3, <5>1, AssetReadBack
      <4> QED
        BY <1>5, <4>1, <4>2, <4>3
    <3> QED
      BY <3>2, <3>3, <3>4 DEF FileInv
  <2> QED
    BY <2>2, <2>3, <2>4
<1> QED
  BY <1>1, <1>2, <1>3, <1>4, <1>5 DEF Next

LEMMA ReadNext ==
    ASSUME TypeOK, SettledInv, DumpInv, FileInv, ReadInv, [Next]_vars
    PROVE  ReadInv'
<1>1. CASE PrintAgents \/ AddsAgent \/ AddsAssets \/ LoadNothing \/ Kill \/ UNCHANGED vars
  <2>1. /\ UNCHANGED <<dumped, got>> /\ pc' \in {pc, "menu", "dead"}
        /\ pc' = "menu" => pc = "menu"
    BY <1>1 DEF PrintAgents, AddsAgent, AddAgent, AddAgentToList, AddsAssets, AddAssetsToAgent,
                LoadNothing, Kill, Dies, Files, Reading, vars
  <2> QED
    BY <2>1 DEF ReadInv, WholeDump
<1>2. CASE Start
  BY <1>2 DEF Start, ReadInv
<1>3. CASE DumpEncryptedFile \/ DumpEncryptedAgent \/ DumpStops
  <2>1. dumped' = <<>>
    BY <1>3 DEF DumpEncryptedFile, DumpEncryptedAgent, DumpStops, DumpInv
  <2> QED
    BY <2>1 DEF ReadInv, WholeDump
<1>4. CASE DumpEnds
  <2>1. pc' = "menu" /\ got' = <<>>
    BY <1>4 DEF DumpEnds, Reading, DumpInv
  <2> QED
    BY <2>1 DEF ReadInv
<1>5. CASE LoadEncryptedFile \/ LoadField
  <2>1. pc' = "load"
    BY <1>5, FieldRead DEF LoadEncryptedFile, LoadField
  <2> QED
    BY <2>1 DEF ReadInv
<1>6. CASE LoadAsset \/ LoadPastEnd
  <2>1. UNCHANGED <<file, dumped>> /\ pc = "load"
    BY <1>6, AssetRead DEF LoadPastEnd, Files
  <2>2. SUFFICES ASSUME WholeDump
                 PROVE  pc' # "endless" /\ (pc' = "menu" /\ got' # <<>> => got' = dumped)
    BY <2>1 DEF ReadInv, WholeDump
  <2>3. PICK starts : Written(file, dumped, Len(dumped), starts, FileEnd) /\ LoadsAt(starts)
    BY <2>1, <2>2 DEF FileInv, WholeDump
  <2>4. CASE LoadAsset
    BY <2>2, <2>3, <2>4, AssetReadBack
  <2>5. CASE LoadPastEnd
    <3>1. Len(input) \in Nat \ {0}
      BY <2>3, Place
    <3>2. input = <<>>
      BY <2>5 DEF LoadPastEnd
    <3> QED
      BY <3>1, <3>2
  <2> QED
    BY <1>6, <2>4, <2>5
<1> QED
  BY <1>1, <1>2, <1>3, <1>4, <1>5, <1>6 DEF Next

IInv == TypeOK /\ DumpPlace /\ SettledInv /\ DumpInv /\ FileInv /\ ReadInv

LEMMA IInvInit == Init => IInv
<1> SUFFICES ASSUME Init PROVE IInv
  OBVIOUS
<1>1. TypeOK /\ DumpPlace
  BY TypeInit DEF Init, DumpPlace
<1>2. SettledInv
  BY SettledNew DEF Init, SettledInv
<1>3. DumpInv /\ FileInv /\ ReadInv
  BY DEF Init, DumpInv, FileInv, ReadInv, WholeDump
<1> QED
  BY <1>1, <1>2, <1>3 DEF IInv

LEMMA IInvNext == IInv /\ [Next]_vars => IInv'
  BY TypeNext, SettledNext, DumpNext, FileNext, ReadNext DEF IInv

\* A sequence that agrees with the beginning of another is a prefix of it.
LEMMA PrefixOf ==
    ASSUME NEW S, NEW s \in Seq(S), NEW t \in Seq(S), Len(s) <= Len(t),
           \A i \in 1 .. Len(s) : s[i] = t[i]
    PROVE  IsPrefix(s, t)
<1> DEFINE u == SubSeq(t, 1, Len(s))
<1>1. Len(s) \in Nat /\ Len(t) \in Nat
  OBVIOUS
<1>2. u \in Seq(S) /\ Len(u) = Len(s) /\ \A i \in 1 .. Len(s) : u[i] = t[i]
  BY <1>1, SubSeqProperties
<1>3. s = u
  <2> HIDE DEF u
  <2> QED
    BY <1>2, SameSeq
<1> QED
  BY <1>1, <1>3 DEF IsPrefix

\* Where a load of a whole dump stands.
LEMMA LoadPrefix ==
    ASSUME TypeOK, NEW starts,
           Written(file, dumped, Len(dumped), starts, FileEnd), LoadsAt(starts)
    PROVE  /\ IsStrictPrefix(got, dumped)
           /\ IsPrefix(agent.fields, dumped[Len(got) + 1].fields)
           /\ IsPrefix(agent.assets, dumped[Len(got) + 1].assets)
<1> DEFINE a == dumped[Len(got) + 1]
<1>1. /\ Len(got) + 1 \in 1 .. Len(dumped) /\ a \in AgentRecord
      /\ Len(agent.fields) \in 0 .. 5 /\ Len(agent.assets) <= Len(a.assets)
      /\ Len(got) \in Nat /\ Len(dumped) \in Nat
  BY Place
<1>2. /\ got \in Seq(AgentRecord) /\ dumped \in Seq(AgentRecord)
      /\ agent.fields \in Seq(Lines) /\ agent.assets \in Seq(Lines)
  BY DEF TypeOK
<1>3. a.fields \in Seq(Lines) /\ Len(a.fields) = 5 /\ a.assets \in Seq(Lines)
  BY <1>1, FiveLines DEF AgentRecord
<1>4. /\ \A j \in 1 .. Len(got) : got[j] = dumped[j]
      /\ \A j \in 1 .. Len(agent.fields) : agent.fields[j] = a.fields[j]
      /\ \A j \in 1 .. Len(agent.assets) : agent.assets[j] = a.assets[j]
  BY DEF LoadsAt
<1> HIDE DEF a
<1>5. IsPrefix(got, dumped) /\ got # dumped
  <2>1. Len(got) <= Len(dumped) /\ Len(got) # Len(dumped)
    BY <1>1
  <2> QED
    BY <1>2, <1>4, <2>1, PrefixOf
<1>6. IsPrefix(agent.fields, a.fields)
  <2>1. Len(agent.fields) <= Len(a.fields)
    <3>1. Len(agent.fields) <= 5
      BY DEF TypeOK
    <3> QED
      BY <1>3, <3>1, Zenon
  <2> QED
    BY <1>2, <1>3, <1>4, <2>1, PrefixOf
<1>7. IsPrefix(agent.assets, a.assets)
  BY <1>1, <1>2, <1>3, <1>4, PrefixOf
<1> QED
  BY <1>5, <1>6, <1>7 DEF a, IsStrictPrefix

LEMMA IInvReadsBack == IInv => ReadsBack
<1> SUFFICES ASSUME IInv, WholeDump
             PROVE  /\ pc # "endless"
                    /\ pc = "menu" /\ got # <<>> => got = dumped
                    /\ pc = "load" => /\ IsStrictPrefix(got, dumped)
                                      /\ IsPrefix(agent.fields, dumped[Len(got) + 1].fields)
                                      /\ IsPrefix(agent.assets, dumped[Len(got) + 1].assets)
  BY DEF ReadsBack
<1>1. pc # "endless" /\ (pc = "menu" /\ got # <<>> => got = dumped)
  BY DEF IInv, ReadInv
<1>2. ASSUME pc = "load"
      PROVE  \E starts : Written(file, dumped, Len(dumped), starts, FileEnd) /\ LoadsAt(starts)
  BY <1>2 DEF IInv, FileInv, WholeDump
<1> QED
  BY <1>1, <1>2, LoadPrefix DEF IInv

\* ReadsBack: a dump that ended, of agents whose lines are shorter than the buffers of
\* loadEncryptedFile, is read back as dumpEncryptedFile wrote it, and reading it ends
\* (util.c:429-567); however many agents and assets there are, whatever their lines, and
\* whatever was loaded, dumped, killed and started before.
THEOREM ReadsBackHolds == Spec => []ReadsBack
<1> QED
  BY IInvInit, IInvNext, IInvReadsBack, PTL DEF Spec

\* Only the step that reads the end mark returns from a load, and by then it has read
\* what was dumped.
LEMMA ReturnsBehind ==
    ASSUME IInv, [Next]_vars, pc = "load", pc' = "menu", WholeDump
    PROVE  list' = list \o dumped
<1>1. LoadAsset
  BY DEF Next, PrintAgents, AddsAgent, AddAgent, AddsAssets, AddAssetsToAgent, DumpEncryptedFile,
         DumpEncryptedAgent, DumpEnds, DumpStops, LoadEncryptedFile, LoadNothing, LoadField,
         LoadPastEnd, Kill, Start, Dies, vars
<1>2. PICK starts : Written(file, dumped, Len(dumped), starts, FileEnd) /\ LoadsAt(starts)
  BY DEF IInv, FileInv, WholeDump
<1>3. got' = dumped
  BY <1>1, <1>2, AssetReadBack DEF IInv
<1>4. AddAgentToList(Append(got, agent)) /\ got' = Append(got, agent)
  BY <1>1, AssetRead DEF IInv
<1>5. list' = list \o Append(got, agent)
  BY <1>4 DEF AddAgentToList
<1> QED
  BY <1>3, <1>4, <1>5

\* LoadedBehind: whatever the list holds when a complete dump is loaded, and whatever was
\* dumped, loaded, killed and started before, the agents that were dumped end up behind
\* it, each once and in order (util.c:325-340, 490-567).
THEOREM LoadedBehindHolds == Spec => LoadedBehind
<1>1. IInv /\ [Next]_vars =>
        [pc = "load" /\ pc' = "menu" /\ WholeDump => list' = list \o dumped]_vars
  BY ReturnsBehind
<1> QED
  BY IInvInit, IInvNext, <1>1, PTL DEF Spec, LoadedBehind
=============================================================================
