---------------------------- MODULE MCRecoveryRun ----------------------------
EXTENDS RecoveryRun

MCVariants == <<"safepm", "vanilla">>
MCLogSizes == <<1, 2>>

=============================================================================
