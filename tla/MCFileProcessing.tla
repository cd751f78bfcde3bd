-------------------------- MODULE MCFileProcessing --------------------------
EXTENDS FileProcessing
=============================================================================
