------------------------ MODULE MCContractSchedule ------------------------
(* ContractSchedule with five installments of one unit.                    *)
EXTENDS ContractSchedule

\* docs/superpowers/specs/2026-09-04-borrower-operational-schedule-catchup-design.md, rule
\* 2: a missed day extends the schedule, whatever was made up before it.
MissedDayExtends == CatchUpVoided \/ FinalizationProceeds
=============================================================================
