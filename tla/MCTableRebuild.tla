---------------------------- MODULE MCTableRebuild ----------------------------
EXTENDS TableRebuild
=============================================================================
