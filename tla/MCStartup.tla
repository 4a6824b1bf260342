------------------------------- MODULE MCStartup -------------------------------
EXTENDS Startup
CONSTANTS i1, i2
================================================================================
