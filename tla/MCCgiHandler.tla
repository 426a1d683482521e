---------------------------- MODULE MCCgiHandler ----------------------------
(* CgiHandler for TLC; the sizes are in the .cfg files.                    *)
EXTENDS CgiHandler
=============================================================================
