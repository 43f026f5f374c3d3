------------------------- MODULE SnapshotUpgradeClaims -------------------------
EXTENDS SnapshotUpgrade

(* "Limits materialised for an older snapshot are chosen consistently with *)
(* what it already declares, so an upgrade never turns a running goal into *)
(* a malformed one" (docs/architecture.md:54-56).                          *)
UpgradeKeepsRunningGoal == old # NoGoal => CarriesOver(old)

=============================================================================
