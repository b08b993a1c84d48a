-------------------------- MODULE MCMailboxDelivery --------------------------
EXTENDS MailboxDelivery, TLC
=============================================================================
