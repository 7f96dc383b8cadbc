------------------------------ MODULE MCProcess ------------------------------
(***************************************************************************)
(* A configuration file that is missing, incomplete, refused or right,     *)
(* with its password or an empty one from the environment, and any request *)
(* after any other.                                                        *)
(***************************************************************************)
EXTENDS Process, TLC

CONSTANT NoneSuch  \* what is not set up, not asked, not answered

MCNoCommandLine == [o \in {} |-> ""]

Complete2(p, m) == [user |-> "u", schema |-> "s", password |-> p, ssl_mode |-> m]

MCFile ==
    {NoneSuch, [user |-> "u", password |-> "secret"],
     Complete2("secret", "PREFERRED"), Complete2("secret", "REQUIRED")}

\* The systemd unit sets the variable to nothing, which replaces the password
\* of the file.
MCEnvironment == {NoneSuch, ""}
=============================================================================
