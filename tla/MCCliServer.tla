---- MODULE MCCliServer ----
EXTENDS CliServer
====
