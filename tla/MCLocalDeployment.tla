------------------------- MODULE MCLocalDeployment --------------------------
EXTENDS LocalDeployment

MCStdApps == <<"vault">>
MCLidoApps == <<"lido">>
=============================================================================
