--------------------------- MODULE MCTaskSupervisor ---------------------------
(* Two chats on one workspace; one of them gets a second turn.               *)
EXTENDS TaskSupervisor

CONSTANTS t1, t2, t3, chat1, chat2

MCTasks == {t1, t2, t3}
MCThreads == {chat1, chat2}
MCPairThreadOf == [t \in {t1, t3} |-> IF t = t3 THEN chat2 ELSE chat1]
MCTwo == {t1, t2}
MCTwoThreadOf == [t \in MCTwo |-> chat1]
MCPair == {t1, t3}
MCOne == {chat1}
LeaseOf(mode) == [workspace |-> "a", gitCommonDirectory |-> "repo", mode |-> mode]
MCWriters == [t \in MCTasks |-> LeaseOf("write")]
=============================================================================
