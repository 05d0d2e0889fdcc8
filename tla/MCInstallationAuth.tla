-------------------------- MODULE MCInstallationAuth --------------------------
(* One enrollment, its installation, and everything that touches the file.   *)
EXTENDS InstallationAuth
=============================================================================
