------------------------ MODULE MCEtcdBackupSchedule ------------------------
EXTENDS EtcdBackupSchedule
=============================================================================
