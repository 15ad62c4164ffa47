---------------------------- MODULE MCPushDraft ----------------------------
\* One push beside two editors; racing pushes are checked in MCSourcing.
EXTENDS PushDraftProperties
=============================================================================
