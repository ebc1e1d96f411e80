---------------------------- MODULE MCCoreRecovery ----------------------------
EXTENDS CoreRecovery

SomeTriggers == AllTriggers \ {<<"issue_comment", "other">>}
=============================================================================
