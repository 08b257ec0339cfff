---- MODULE MCVideoServer ----
EXTENDS VideoServer
====
