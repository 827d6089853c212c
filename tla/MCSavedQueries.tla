--------------------------- MODULE MCSavedQueries ---------------------------
EXTENDS SavedQueries
=============================================================================
