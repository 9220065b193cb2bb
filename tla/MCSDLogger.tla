----------------------------- MODULE MCSDLogger -----------------------------
EXTENDS SDLogger
BothModes == {"truncate", "append"}
=============================================================================
