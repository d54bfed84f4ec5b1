-------------------------- MODULE MCAgentRegistry --------------------------
\* Instance of AgentRegistry for TLC: three agents, of which one has a first name
\* that fills its buffer and one an age of nine digits.
EXTENDS AgentRegistry

Person(name, age) ==
    <<Line(name, IF name = "long" THEN 63 ELSE 4), Line("Smith", 5),
      Line(age, IF age = "123456789" THEN 9 ELSE 2), Line("F", 1), Line("ABC012345678", 12)>>
SomePeople == {Person("Anna", "30"), Person("long", "30"), Person("Anna", "123456789")}
SomeAssets == {Line("ABCD012345678", 13), Line("WXYZ876543210", 13)}
=============================================================================
