----------------------------- MODULE MCStartup ------------------------------
\* Every database and every setting.
EXTENDS Startup

AllDatabases == {Fresh, Early, Legacy, Former, Latest}
=============================================================================
