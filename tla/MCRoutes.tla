------------------------------ MODULE MCRoutes -----------------------------
EXTENDS Routes
============================================================================
