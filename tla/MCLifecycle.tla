---------------------------- MODULE MCLifecycle ----------------------------
EXTENDS Lifecycle

=============================================================================
