----------------------------- MODULE MCEnginePool -----------------------------
(* The constants of EnginePool for TLC. *)
EXTENDS EnginePool

CONSTANTS RC, RR, SER, s1, s2

MCLevels == {RC, RR, SER}
MCSlots == {s1, s2}

Error(class, word, code) == [class |-> class, word |-> word, code |-> code]

\* The shapes docs/en/connection.md:165-170 lists.
MCLinkErrors ==
    { Error("InterfaceError", "closed", NoCode),
      Error("OperationalError", "communication", NoCode),
      Error("DatabaseError", "other", -4) }

\* A plain refusal, and a lock time-out on a class named "connection_log".
MCSqlErrors ==
    { Error("ProgrammingError", "connection", NoCode),
      Error("OperationalError", "connection", NoCode) }
=============================================================================
