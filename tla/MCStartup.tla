------------------------------ MODULE MCStartup --------------------------------
(***************************************************************************)
(* Startup for TLC. Migrations and seeds share no state, so the processes  *)
(* start either among the operator's changes to the schema or among the    *)
(* chef's work, which is chosen at the start.                              *)
(***************************************************************************)
EXTENDS Startup

VARIABLE meets

meetingVars == <<startupVars, meets>>

MeetingInit == StartupInit /\ meets \in {"schema", "seeds"}

MeetingNext ==
  /\ \/ ProcessesMove
     \/ meets = "schema" /\ SchemaMoves
     \/ meets = "seeds" /\ ChefMoves
  /\ UNCHANGED meets

MeetingSpec == MeetingInit /\ [][MeetingNext]_meetingVars

=============================================================================
