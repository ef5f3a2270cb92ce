----------------------------- MODULE MCGuestInstall -----------------------------
(* Small instances of GuestInstall for TLC: the first installation, the boot  *)
(* recovery, and a permanent maintenance or an app installation.              *)
EXTENDS GuestInstall

MCTable == <<"recovery", "storage">>
MCAppTable == <<"recovery", "app">>
MCAgain == <<>>
==================================================================================
